---- MODULE Spec2Model ----
(***************************************************************************)
(* Flic 2 BLE client (custom_components/flic_ble/flic2): the orchestrator  *)
(* Flic2Client, its PairingStateMachine and the packet codec, as a state   *)
(* machine over the asyncio scheduling points of the source.               *)
(*                                                                         *)
(* Cryptographic values are symbolic terms: a key or a MAC is the record   *)
(* of the function that produced it and of that function's inputs, so two  *)
(* MACs are equal exactly when function, key, direction, counter and       *)
(* message are equal.  Payloads of the handshake whose bytes are keys and  *)
(* signatures are records of their length and of the fields the code       *)
(* reads; all other payloads are byte sequences.                           *)
(***************************************************************************)
EXTENDS Integers, Sequences, FiniteSets, TLC

(***************************************************************************)
(* Bounds of the model.                                                    *)
(***************************************************************************)
MaxHandshakes == 1      \* PairingStateMachine objects created in one run
MaxTasks == 2           \* _process_packet tasks alive at once
MaxTx == 2              \* tx_counter values explored
MaxNotifications == 3   \* notifications the button sends in one run
MaxEventBytes == 19     \* longest button event payload handed to the decoder
MaxPayloadLen == 7      \* longest payload taken through encode and decode
MaxAttempts == 4        \* connection attempts of the coordinator in one run
MaxMacLen == 33         \* longest message handed to the Chaskey MACs

(***************************************************************************)
(* Program constants.                                                      *)
(***************************************************************************)
SIGNATURE_LENGTH == 5
CONN_ID_MASK == 31
NEWLY_ASSIGNED_BIT == 32
MULTI_BIT == 64
FRAGMENT_BIT == 128

FULL_VERIFY_REQUEST_1 == 0
FULL_VERIFY_RESPONSE_1 == 0
FULL_VERIFY_FAIL_RESPONSE_1 == 1
FULL_VERIFY_REQUEST_2 == 2
FULL_VERIFY_RESPONSE_2 == 1
FULL_VERIFY_FAIL_RESPONSE_2 == 3
QUICK_VERIFY_REQUEST == 5
NO_PAIRING_EXISTS == 6
QUICK_VERIFY_RESPONSE == 8
QUICK_VERIFY_FAIL == 9
INIT_BUTTON_EVENTS == 23
INIT_BUTTON_EVENTS_RESPONSE == 10
INIT_BUTTON_EVENTS_NO_BOOT == 11
BUTTON_EVENT_NOTIFICATION == 12
DISCONNECTED_LINK == 9
BUTTON_EVENT_SINGLE == 7
PING_REQUEST == 14
PING_RESPONSE == 15

\* FullVerifyFailReason / QuickVerifyFailReason: the values the enums define
FullVerifyFailReason == 0..4
INVALID_VERIFIER == 1
QuickVerifyFailReason == 0..3
INVALID_PAIRING_ID == 1

\* a value that is Python's None, whatever the type of the field holding it
None == [none |-> TRUE]

(***************************************************************************)
(* Payloads.  `len` is the length in bytes; `bytes` are the bytes when the *)
(* payload is modelled byte by byte (then Len(bytes) = len); `body` holds  *)
(* the fields of a handshake payload that is not.                          *)
(***************************************************************************)
Bytes(bs) == [len |-> Len(bs), bytes |-> bs, body |-> None]
Abstract(n, body) == [len |-> n, bytes |-> <<>>, body |-> body]
IsConcrete(p) == Len(p.bytes) = p.len

\* payload[i] of the source (0-based), for the offsets the code reads
PByte(p, i) ==
  IF i < Len(p.bytes) THEN p.bytes[i + 1]
  ELSE IF i = 115 /\ p.body # None THEN p.body.flags
  ELSE 0

(***************************************************************************)
(* Chaskey-LTS authenticators as terms (crypto/chaskey_lts.py).            *)
(***************************************************************************)
Msg(head, payload) == [head |-> head, payload |-> payload]

mac5(key, message) ==
  [fn |-> "mac5", key |-> key, dir |-> 0, counter |-> 0, msg |-> message]

mac_with_dir_and_counter(key, message, direction, counter) ==
  [fn |-> "mac_with_dir_and_counter", key |-> key, dir |-> direction,
   counter |-> counter, msg |-> message]

\* the five bytes of a MAC as they sit in a byte string: opaque values
SigBytes(sig) == IF sig = None THEN <<>> ELSE [i \in 1..SIGNATURE_LENGTH |-> 0]

(***************************************************************************)
(* Key schedule as terms (crypto/keys.py).  A handshake's own key pair and *)
(* client_random are fresh per PairingContext: `nonce` names them.         *)
(***************************************************************************)
derive_full_verify_secret(nonce, sig_bits, button_random) ==
  [nonce |-> nonce, sig_bits |-> sig_bits, button_random |-> button_random]

derive_verifier(secret) == [label |-> "AT", secret |-> secret]
derive_session_key(secret) == [label |-> "SK", secret |-> secret]
derive_pairing_data(secret) ==
  [pairing_id |-> [label |-> "PK[0:4]", secret |-> secret],
   pairing_key |-> [label |-> "PK[4:20]", secret |-> secret]]

derive_quick_verify_session_key(pairing_key, client_random, button_random) ==
  [label |-> "encrypt_block", pairing_key |-> pairing_key,
   client_random |-> client_random, button_random |-> button_random]

(***************************************************************************)
(* Raw packets on the wire: header byte, opcode byte, payload and, when    *)
(* the sender signed, the 5-byte MAC that ends the packet.                 *)
(***************************************************************************)
Raw(hdr, opcode, payload, sig) ==
  [hdr |-> hdr, opcode |-> opcode, payload |-> payload, sig |-> sig]

RawLen(data) ==
  2 + data.payload.len + (IF data.sig = None THEN 0 ELSE SIGNATURE_LENGTH)

\* PacketEncoder.encode; _chaskey is the encoder's key or None
encode(chaskey, opcode, payload, conn_id, newly_assigned, sign) ==
  LET header == (conn_id % (CONN_ID_MASK + 1))
                + (IF newly_assigned THEN NEWLY_ASSIGNED_BIT ELSE 0)
  IN  Raw(header, opcode, payload,
          IF sign /\ chaskey # None
          THEN mac5(chaskey, Msg(<<header, opcode>>, payload))
          ELSE None)

encode_full_verify_request_1(chaskey, tmp_id) ==
  encode(chaskey, FULL_VERIFY_REQUEST_1, Abstract(4, [tmp_id |-> tmp_id]),
         0, FALSE, FALSE)

encode_full_verify_request_2(chaskey, nonce, verifier, conn_id) ==
  encode(chaskey, FULL_VERIFY_REQUEST_2,
         Abstract(57, [our_pubkey |-> nonce, client_random |-> nonce,
                       rfu |-> 0, verifier |-> verifier]),
         conn_id, FALSE, FALSE)

encode_quick_verify_request(chaskey, pairing_id, nonce) ==
  encode(chaskey, QUICK_VERIFY_REQUEST,
         Abstract(16, [client_random |-> nonce, flags |-> 0, tmp_id |-> nonce,
                       pairing_id |-> pairing_id]),
         0, FALSE, FALSE)

encode_ping(chaskey, conn_id) ==
  encode(chaskey, PING_REQUEST, Bytes(<<>>), conn_id, FALSE, TRUE)

\* data[2:] when the trailing MAC is not stripped
WithTrailer(data) ==
  [len |-> data.payload.len + Len(SigBytes(data.sig)),
   bytes |-> IF IsConcrete(data.payload)
             THEN data.payload.bytes \o SigBytes(data.sig)
             ELSE data.payload.bytes,
   body |-> data.payload.body]

\* does data[-5:] equal mac5(data[:-5]) under the decoder's key
SignatureMatches(chaskey, data) ==
  /\ data.sig # None
  /\ data.sig = mac5(chaskey, Msg(<<data.hdr, data.opcode>>, data.payload))

\* PacketDecoder.decode: a Packet, or the exception it raises
decode(chaskey, data, verify_signature) ==
  LET checked == verify_signature /\ chaskey # None
                 /\ RawLen(data) > SIGNATURE_LENGTH + 2
  IN  IF RawLen(data) < 2 THEN [raised |-> "ValueError"]
      ELSE IF checked /\ ~SignatureMatches(chaskey, data)
      THEN [raised |-> "InvalidSignatureError"]
      ELSE [conn_id |-> data.hdr % (CONN_ID_MASK + 1),
            newly_assigned |-> (data.hdr \div NEWLY_ASSIGNED_BIT) % 2 = 1,
            is_multi |-> (data.hdr \div MULTI_BIT) % 2 = 1,
            is_fragment |-> (data.hdr \div FRAGMENT_BIT) % 2 = 1,
            opcode |-> data.opcode,
            payload |-> IF checked THEN data.payload ELSE WithTrailer(data),
            signature |-> IF checked THEN data.sig ELSE None]

Raised(x) == "raised" \in DOMAIN x

(***************************************************************************)
(* PacketDecoder.decode_button_event: one event per 7-byte record after    *)
(* the 4-byte press counter.                                               *)
(***************************************************************************)
\* int.from_bytes(bs, 'little') for 4 bytes
LE4(bs) == bs[1] + 256 * bs[2] + 65536 * bs[3] + 16777216 * bs[4]

\* a decoder that knows only the table of simple event types
event_type_table_only(event_info) ==
  LET event_encoded == event_info % 16
  IN  CASE event_encoded = 0 -> "UP"
        [] event_encoded = 1 -> "DOWN"
        [] event_encoded = 2 -> "CLICK"
        [] event_encoded = 3 -> "SINGLE_CLICK"
        [] event_encoded = 4 -> "DOUBLE_CLICK"
        [] event_encoded = 5 -> "HOLD"
        [] OTHER -> "UP"

event_type(event_info) ==
  LET event_encoded == event_info % 16
  IN  IF event_encoded \div 8 # 0
      THEN IF (event_encoded \div 4) % 2 = 1 THEN "HOLD"
           ELSE IF (event_encoded \div 2) % 2 = 1
           THEN IF event_encoded % 2 = 1 THEN "DOUBLE_CLICK" ELSE "SINGLE_CLICK"
           ELSE "UP"
      ELSE CASE event_encoded = 0 -> "UP"
             [] event_encoded = 1 -> "DOWN"
             [] event_encoded = 2 -> "CLICK"
             [] event_encoded = 3 -> "SINGLE_CLICK"
             [] event_encoded = 4 -> "DOUBLE_CLICK"
             [] event_encoded = 5 -> "HOLD"
             [] OTHER -> "UP"

\* a decoder that returns the records newest first
decode_button_event_reversed(payload) ==
  IF payload.len < 4 THEN <<>>
  ELSE LET n == (payload.len - 4) \div 7
       IN  [k \in 1..n |->
              LET event_info == PByte(payload, 4 + 7 * (n - k) + 6)
              IN  [event_type |-> event_type(event_info),
                   was_queued |-> (event_info \div 16) % 2 = 1,
                   press_counter |-> LE4(SubSeq(payload.bytes, 1, 4))]]

decode_button_event(payload) ==
  IF payload.len < 4 THEN <<>>
  ELSE [k \in 1..((payload.len - 4) \div 7) |->
          LET event_info == PByte(payload, 4 + 7 * (k - 1) + 6)
          IN  [event_type |-> event_type(event_info),
               was_queued |-> (event_info \div 16) % 2 = 1,
               press_counter |-> LE4(SubSeq(payload.bytes, 1, 4))]]

(***************************************************************************)
(* Names of the fail reasons, as the handlers format them.  A reason the   *)
(* enum does not define makes FullVerifyFailReason(reason) raise.          *)
(***************************************************************************)
FullVerifyFailReasonName(reason) ==
  CASE reason = 0 -> "UNKNOWN"
    [] reason = 1 -> "INVALID_VERIFIER"
    [] reason = 2 -> "NOT_IN_PUBLIC_MODE"
    [] reason = 3 -> "TOO_MANY_PAIRINGS"
    [] reason = 4 -> "NOT_IN_PAIRING_MODE"
    [] OTHER -> "UNKNOWN(reason)"

QuickVerifyFailReasonName(reason) ==
  CASE reason = 0 -> "UNKNOWN"
    [] reason = 1 -> "INVALID_PAIRING_ID"
    [] reason = 2 -> "INVALID_SIGNATURE"
    [] reason = 3 -> "NO_SPACE"
    [] OTHER -> "UNKNOWN(reason)"

\* reason = packet.payload[0] if packet.payload else 0
ReasonByte(payload) == IF payload.len > 0 THEN PByte(payload, 0) ELSE 0

(***************************************************************************)
(* crypto/ed25519.py verify_button_identity: the first candidate b in      *)
(* 0,1,2,3 that verifies; `verifying` is the set of candidates for which   *)
(* Ed25519 accepts the signature the button sent.                          *)
(***************************************************************************)
verify_button_identity(verifying) ==
  IF verifying = {} THEN [raised |-> "InvalidSignatureError"]
  ELSE [sig_bits |-> CHOOSE b \in verifying : \A c \in verifying : b <= c]

(***************************************************************************)
(* PairingContext and PairingStateMachine.                                 *)
(***************************************************************************)
PairingContext(nonce) ==
  [nonce |-> nonce,              \* tmp_id, our key pair and client_random
   button |-> None,              \* signature, address, pubkey from response 1
   button_random |-> None,
   sig_bits |-> None,
   verifier |-> None,
   session_key |-> None,
   pairing |-> None,             \* pairing_id and pairing_key
   info |-> "",                  \* button info from response 2
   conn_id |-> 0,
   error_reason |-> None,
   verified |-> None]            \* history: the button data that passed Ed25519

PairingStateMachine(nonce, stored_credentials) ==
  [state |-> "IDLE",
   path |-> <<"IDLE">>,          \* history: every value `state` has had
   stored_credentials |-> stored_credentials,
   ctx |-> PairingContext(nonce),
   encoder |-> None,
   decoder |-> None]

is_complete(m) == m.state \in {"FULL_VERIFY_COMPLETE", "QUICK_VERIFY_COMPLETE"}

\* what one handler invocation did: the machine after it, the packet it
\* handed to send, the callbacks it invoked, whether it now awaits the send
Effect(m, pkt, cbs, awaiting) ==
  [m |-> m, out |-> pkt, cb |-> cbs, awaiting |-> awaiting]

Failed(m) == [m EXCEPT !.state = "FAILED", !.path = Append(@, "FAILED")]

on_error(k, msg) == [name |-> "on_error", hs |-> k, msg |-> msg]
on_session_key(k, key) == [name |-> "on_session_key", hs |-> k, key |-> key]
on_pairing_complete(k, creds) ==
  [name |-> "on_pairing_complete", hs |-> k, creds |-> creds]
on_quick_verify_complete(k, key) ==
  [name |-> "on_quick_verify_complete", hs |-> k, done |-> key]
on_button_event(event) == [name |-> "on_button_event", event |-> event]

\* an int held in a field that may also be None
Some(v) == [v |-> v]

\* the text an error callback or exception carries
ErrorMsg(text, detail) == [text |-> text, detail |-> detail]

(***************************************************************************)
(* PairingStateMachine._handle_full_verify_response_1 up to its await on   *)
(* self.send.  k is the machine's index, `connected` is is_connected at    *)
(* the call of _send and `written` whether the transport takes the write.  *)
(* An exception leaves through handle_packet, with the machine as it was   *)
(* when it was raised.                                                     *)
(***************************************************************************)
handle_full_verify_response_1(m, k, packet, connected, written) ==
  IF packet.opcode = FULL_VERIFY_FAIL_RESPONSE_1
  THEN LET reason == ReasonByte(packet.payload)
           failed == [Failed(m) EXCEPT !.ctx.error_reason = Some(reason)]
       IN  IF reason \in FullVerifyFailReason
           THEN Effect(failed, None,
                       <<on_error(k, ErrorMsg("FullVerify failed at step 1", FullVerifyFailReasonName(reason)))>>, FALSE)
           ELSE Effect(failed, None, <<>>, FALSE)     \* ValueError raised
  ELSE IF packet.opcode # FULL_VERIFY_RESPONSE_1
  THEN Effect(m, None, <<>>, FALSE)
  ELSE IF packet.payload.len < 115                    \* decode raises
  THEN Effect(Failed(m), None, <<>>, FALSE)
  ELSE
    LET body == packet.payload.body
        m1 == [m EXCEPT !.ctx.button = Some(body.button),
                        !.ctx.button_random = Some(body.button_random)]
        is_public_mode == (PByte(packet.payload, 115) \div 2) % 2
        verified == verify_button_identity(body.verifying)
    IN  IF packet.payload.len > 115 /\ is_public_mode = 0
        THEN Effect(Failed(m1), None,
                    <<on_error(k, ErrorMsg("Button is not in pairing mode", ""))>>, FALSE)
        ELSE IF Raised(verified)
        THEN Effect(Failed(m1), None,
                    <<on_error(k, ErrorMsg("No valid sig_bits found", ""))>>, FALSE)
        ELSE
          LET secret == derive_full_verify_secret(
                          m.ctx.nonce, verified.sig_bits, body.button_random)
              m2 == [m1 EXCEPT !.ctx.sig_bits = Some(verified.sig_bits),
                               !.ctx.verified = Some(body.button),
                               !.ctx.verifier = derive_verifier(secret),
                               !.ctx.session_key = derive_session_key(secret),
                               !.ctx.pairing = derive_pairing_data(secret),
                               !.ctx.conn_id = packet.conn_id]
              packet_data == encode_full_verify_request_2(
                               m.encoder, m.ctx.nonce, m2.ctx.verifier,
                               m2.ctx.conn_id)
          IN  IF connected /\ written
              THEN Effect(m2, packet_data, <<>>, TRUE)
              ELSE Effect(m2, None, <<>>, FALSE)      \* _send raised

\* the rest of _handle_full_verify_response_1, once the send has returned
after_full_verify_request_2(m, k) ==
  Effect([m EXCEPT !.state = "FULL_VERIFY_REQUEST_2_SENT",
                   !.path = Append(@, "FULL_VERIFY_REQUEST_2_SENT"),
                   !.decoder = m.ctx.session_key,
                   !.encoder = m.ctx.session_key],
         None, <<on_session_key(k, m.ctx.session_key)>>, FALSE)

PairingCredentials(ctx) ==
  [address |-> ctx.button,
   pairing_id |-> ctx.pairing.pairing_id,
   pairing_key |-> ctx.pairing.pairing_key,
   info |-> ctx.info]

\* PairingStateMachine._handle_full_verify_response_2
handle_full_verify_response_2(m, k, packet) ==
  IF packet.opcode = FULL_VERIFY_FAIL_RESPONSE_2
  THEN LET reason == ReasonByte(packet.payload)
           failed == [Failed(m) EXCEPT !.ctx.error_reason = Some(reason)]
       IN  IF reason = INVALID_VERIFIER
           THEN Effect(failed, None, <<>>, FALSE)     \* InvalidVerifierError raised
           ELSE Effect(failed, None,
                       <<on_error(k, ErrorMsg("FullVerify failed at step 2", FullVerifyFailReasonName(reason)))>>, FALSE)
  ELSE
    LET m1 == [m EXCEPT !.ctx.info = IF packet.payload.len < 18
                                     THEN "defaults" ELSE "decoded",
                        !.state = "FULL_VERIFY_COMPLETE",
                        !.path = Append(@, "FULL_VERIFY_COMPLETE")]
    IN  Effect(m1, None, <<on_pairing_complete(k, PairingCredentials(m1.ctx))>>,
               FALSE)

\* PairingStateMachine._handle_quick_verify_response
handle_quick_verify_response(m, k, packet) ==
  IF packet.opcode = NO_PAIRING_EXISTS
  THEN Effect([Failed(m) EXCEPT !.ctx.error_reason = Some(INVALID_PAIRING_ID)],
              None,
              <<on_error(k, ErrorMsg("QuickVerify failed", "No pairing exists on button (needs re-pairing)"))>>,
              FALSE)
  ELSE IF packet.opcode = QUICK_VERIFY_FAIL
  THEN LET reason == ReasonByte(packet.payload)
       IN  Effect([Failed(m) EXCEPT !.ctx.error_reason = Some(reason)], None,
                  <<on_error(k, ErrorMsg("QuickVerify failed", QuickVerifyFailReasonName(reason)))>>, FALSE)
  ELSE IF packet.opcode # QUICK_VERIFY_RESPONSE
  THEN Effect(m, None, <<>>, FALSE)
  ELSE IF packet.payload.len < 8                      \* decode raises
  THEN Effect(m, None, <<>>, FALSE)
  ELSE
    LET button_random == packet.payload.body.button_random
        key == derive_quick_verify_session_key(
                 m.stored_credentials.pairing_key, m.ctx.nonce, button_random)
        m1 == [m EXCEPT !.ctx.button_random = Some(button_random),
                        !.ctx.conn_id = packet.conn_id,
                        !.ctx.session_key = key,
                        !.decoder = key,
                        !.encoder = key,
                        !.state = "QUICK_VERIFY_COMPLETE",
                        !.path = Append(@, "QUICK_VERIFY_COMPLETE")]
    IN  Effect(m1, None,
               <<on_session_key(k, key), on_quick_verify_complete(k, key)>>, FALSE)

\* PairingStateMachine.handle_packet
handle_packet(m, k, data, connected, written) ==
  LET packet == decode(m.decoder, data, FALSE)
  IN  IF Raised(packet) THEN Effect(m, None, <<>>, FALSE)
      ELSE IF m.state = "FULL_VERIFY_REQUEST_1_SENT"
      THEN handle_full_verify_response_1(m, k, packet, connected, written)
      ELSE IF m.state = "FULL_VERIFY_REQUEST_2_SENT"
      THEN handle_full_verify_response_2(m, k, packet)
      ELSE IF m.state = "QUICK_VERIFY_REQUEST_SENT"
      THEN handle_quick_verify_response(m, k, packet)
      ELSE Effect(m, None, <<>>, FALSE)

(***************************************************************************)
(* State of one Flic2Client and of the event loop that runs it.            *)
(***************************************************************************)
VARIABLES
  bleak_client,      \* "None", "connected", or "closed" (object kept, link down)
  connection_state,  \* ConnectionState
  credentials,       \* self._credentials
  session,           \* self._session: SessionState
  encoder_key,       \* self._encoder's session key
  decoder_key,       \* self._decoder's session key
  machines,          \* every PairingStateMachine created, in creation order
  state_machine,     \* self._state_machine: an index of machines, 0 for None
  response_event,    \* self._response_event is set
  last_response,     \* self._last_response
  tasks,             \* _process_packet tasks created and not yet run, oldest first
  suspended,         \* response-1 handlers that await self.send
  op,                \* the operation coroutine (connect, pair, ...) and its locals
  out,               \* the packet the last step handed to the transport, or None
  cb,                \* the callbacks the last step invoked, in order
  running,           \* self._running: the flag the listen loop tests
  listening,         \* a listen() coroutine is in its loop
  handshake_done,    \* history: a handshake completed on the current connection
  received,          \* history: notifications delivered so far
  ping_response_seen, \* history: a PING_RESPONSE arrived since the running
                     \* ping() handed its request to the transport
  arg,               \* a codec function called on its own: its arguments
  ret,               \* and [value |-> what it returned], None before the call
  coordinator,       \* the Flic2Coordinator that owns the client
  db                 \* the rows of table credentials of CredentialStorage

vars == <<bleak_client, connection_state, credentials, session, encoder_key,
          decoder_key, machines, state_machine, response_event, last_response,
          tasks, suspended, op, out, cb, running, listening, handshake_done,
          received, ping_response_seen, arg, ret, coordinator, db>>

\* Flic2Coordinator.__init__.  A task is "None", or the step its coroutine
\* is at, or "done" or "cancelled"; start is where async_start is.
\* attempts (the calls of _async_connect that reached the device lookup) and
\* last (how the latest one ended) are history.
Flic2Coordinator ==
  [running |-> FALSE,
   reconnect_task |-> "None",
   listen_task |-> "None",
   available |-> FALSE,
   start |-> "None",
   attempts |-> 0,
   last |-> "none"]

SessionState ==
  [conn_id |-> 0, session_key |-> None, tx_counter |-> 0, rx_counter |-> 0,
   is_paired |-> FALSE]

\* credentials a client can be constructed with: an earlier pairing's
StoredCredentials ==
  [address |-> Some(1),
   pairing_id |-> derive_pairing_data(derive_full_verify_secret(0, 0, 0)).pairing_id,
   pairing_key |-> derive_pairing_data(derive_full_verify_secret(0, 0, 0)).pairing_key,
   info |-> "decoded"]

NoOp ==
  [name |-> "none", pc |-> "idle", hs |-> 0, complete |-> FALSE, error |-> None,
   result_credentials |-> None, result |-> "none", ahead |-> 0]

\* Flic2Client.__init__
Init ==
  /\ bleak_client = "None"
  /\ connection_state = "DISCONNECTED"
  /\ credentials \in {None, StoredCredentials}
  /\ session = SessionState
  /\ encoder_key = None
  /\ decoder_key = None
  /\ machines = <<>>
  /\ state_machine = 0
  /\ response_event = FALSE
  /\ last_response = None
  /\ tasks = <<>>
  /\ suspended = <<>>
  /\ op = NoOp
  /\ out = None
  /\ cb = <<>>
  /\ running = FALSE
  /\ listening = FALSE
  /\ handshake_done = FALSE
  /\ received = 0
  /\ ping_response_seen = FALSE
  /\ arg = None
  /\ ret = None
  /\ coordinator = Flic2Coordinator
  /\ db = {}

is_connected == bleak_client = "connected"

Idle == op.pc = "idle"

(***************************************************************************)
(* The event loop runs what is ready first-in first-out, so a task that    *)
(* exists when a coroutine suspends on the transport or on a timer runs    *)
(* before that coroutine resumes.  `ahead` counts these tasks: they are    *)
(* the oldest of `tasks`.                                                  *)
(***************************************************************************)
Suspend(o) == [o EXCEPT !.ahead = Len(tasks)]

Resumable == op.ahead = 0

Dec(n) == IF n > 0 THEN n - 1 ELSE 0

\* the coroutine returns or raises `result`; its locals are gone
Return(name, result) ==
  [NoOp EXCEPT !.name = name, !.result = result,
               !.hs = IF Idle THEN 0 ELSE op.hs]

(***************************************************************************)
(* The closures pair() and quick_verify() hand to their state machine.     *)
(* on_session_key writes the client; the others write the locals of the    *)
(* call that created machine k, which matter while that call is running.   *)
(***************************************************************************)
Client(s, e, d, o) == [session |-> s, encoder_key |-> e, decoder_key |-> d, op |-> o]

InCall(o, k) == o.hs = k /\ o.pc # "idle" /\ o.name \in {"pair", "quick_verify"}

Invoke(c, call) ==
  IF call.name = "on_session_key"
  THEN [c EXCEPT !.session.session_key = call.key,
                 !.decoder_key = call.key,
                 !.encoder_key = call.key]
  ELSE IF call.name = "on_error" /\ InCall(c.op, call.hs)
  THEN [c EXCEPT !.op.error = call.msg, !.op.complete = TRUE]
  ELSE IF call.name = "on_pairing_complete" /\ InCall(c.op, call.hs)
  THEN [c EXCEPT !.op.result_credentials = call.creds, !.op.complete = TRUE]
  ELSE IF call.name = "on_quick_verify_complete" /\ InCall(c.op, call.hs)
  THEN [c EXCEPT !.op.complete = TRUE]
  ELSE c

RECURSIVE InvokeAll(_, _)
InvokeAll(c, calls) ==
  IF calls = <<>> THEN c ELSE InvokeAll(Invoke(c, Head(calls)), Tail(calls))

\* the client after the callbacks of one handler invocation; o is the
\* operation coroutine as the invocation finds it
Called(calls, o) ==
  LET c == InvokeAll(Client(session, encoder_key, decoder_key, o), calls)
  IN  /\ session' = c.session
      /\ encoder_key' = c.encoder_key
      /\ decoder_key' = c.decoder_key
      /\ op' = c.op

(***************************************************************************)
(* Notifications the button can send.                                      *)
(***************************************************************************)
ConnIds == {5}                   \* conn_id values the button assigns

\* tmp_id(4) signature(64) address(6) type(1) pubkey(32) random(8) [flags(1)]
Response1(conn_id, len, flags, verifying, button) ==
  Raw(conn_id, FULL_VERIFY_RESPONSE_1,
      Abstract(len, [flags |-> flags, button |-> button, button_random |-> 1,
                     verifying |-> verifying]),
      None)

\* press_counter 7, then two records: DOWN, and double click that was queued
EventPayload == Bytes(<<7, 0, 0, 0,  0, 0, 0, 0, 0, 0, 1,  0, 0, 0, 0, 0, 0, 27>>)

ForgedKey == [label |-> "forged"]

Signed(key, hdr, opcode, payload) ==
  Raw(hdr, opcode, payload, mac5(key, Msg(<<hdr, opcode>>, payload)))

Inbound ==
  UNION {
    { Response1(c, 116, 2, {2}, 1),
      Response1(c, 116, 0, {2}, 1), Response1(c, 116, 2, {}, 2),
      Response1(c, 20, 0, {2}, 1),
      Raw(c, FULL_VERIFY_FAIL_RESPONSE_1, Bytes(<<2>>), None),
      Raw(c, FULL_VERIFY_FAIL_RESPONSE_1, Bytes(<<7>>), None),
      Raw(c, FULL_VERIFY_FAIL_RESPONSE_2, Bytes(<<1>>), None),
      Raw(c, FULL_VERIFY_FAIL_RESPONSE_2, Bytes(<<2>>), None),
      Raw(0, NO_PAIRING_EXISTS, Bytes(<<>>), None),
      Raw(c, QUICK_VERIFY_RESPONSE, Abstract(8, [button_random |-> 1]), None),
      Raw(c, DISCONNECTED_LINK, Bytes(<<1>>), None),
      Raw(c, INIT_BUTTON_EVENTS_RESPONSE,
          Bytes(<<1, 0, 0, 0,  0, 0, 0, 0,  0, 0, 0, 0,  90>>), None),
      Raw(c, PING_RESPONSE, Bytes(<<>>), None),
      Signed(ForgedKey, c, BUTTON_EVENT_NOTIFICATION, EventPayload) }
    \cup (IF decoder_key = None THEN {}
          ELSE {Signed(decoder_key, c, BUTTON_EVENT_NOTIFICATION, EventPayload)})
    : c \in ConnIds }

(***************************************************************************)
(* Transport callbacks.                                                    *)
(***************************************************************************)
\* Flic2Client._on_notification
Notify(data) ==
  /\ is_connected
  /\ Len(tasks) + Len(suspended) < MaxTasks
  /\ received < MaxNotifications
  /\ received' = received + 1
  /\ last_response' = data
  /\ response_event' = TRUE
  /\ tasks' = Append(tasks, data)
  /\ out' = None
  /\ cb' = <<>>
  /\ ping_response_seen' =
       (ping_response_seen
        \/ (op.name = "ping" /\ ~Idle /\ data.opcode = PING_RESPONSE))
  /\ UNCHANGED <<bleak_client, connection_state, credentials, session,
                 encoder_key, decoder_key, machines, state_machine, suspended,
                 op, handshake_done, running, listening>>
  /\ UNCHANGED <<arg, ret, coordinator, db>>

\* Flic2Client._on_disconnect, with SessionState.reset
OnDisconnect ==
  /\ is_connected
  /\ bleak_client' = "closed"
  /\ session' = SessionState
  /\ connection_state' = "DISCONNECTED"
  /\ running' = FALSE
  /\ handshake_done' = FALSE
  /\ out' = None
  /\ cb' = <<>>
  /\ UNCHANGED <<credentials, encoder_key, decoder_key, machines, state_machine,
                 response_event, last_response, tasks, suspended, op, received,
                 listening, ping_response_seen>>
  /\ UNCHANGED <<arg, ret, coordinator, db>>

\* Flic2Client._process_packet, run as the oldest task
ProcessPacket(written) ==
  /\ tasks # <<>>
  /\ tasks' = Tail(tasks)
  /\ LET data == Head(tasks)
         k == state_machine
         waiting == [i \in DOMAIN suspended |->
                       [suspended[i] EXCEPT !.ahead = Dec(@)]]
         o == [op EXCEPT !.ahead = Dec(@)]
     IN  IF k # 0 /\ ~is_complete(machines[k])
         THEN LET e == handle_packet(machines[k], k, data, is_connected, written)
              IN  /\ machines' = [machines EXCEPT ![k] = e.m]
                  /\ out' = e.out
                  /\ cb' = e.cb
                  /\ suspended' =
                       IF e.awaiting
                       THEN Append(waiting, [hs |-> k, ahead |-> Len(tasks) - 1])
                       ELSE waiting
                  /\ Called(e.cb, o)
                  /\ handshake_done' = (handshake_done \/ is_complete(e.m))
         ELSE LET packet == decode(decoder_key, data, FALSE)
              IN  /\ cb' = IF ~Raised(packet)
                              /\ packet.opcode \in {BUTTON_EVENT_SINGLE,
                                                    BUTTON_EVENT_NOTIFICATION}
                           THEN LET events == decode_button_event(packet.payload)
                                IN  [i \in 1..Len(events) |-> on_button_event(events[i])]
                           ELSE <<>>
                  /\ out' = None
                  /\ suspended' = waiting
                  /\ op' = o
                  /\ UNCHANGED <<machines, session, encoder_key, decoder_key,
                                 handshake_done>>
  /\ UNCHANGED <<bleak_client, connection_state, credentials, state_machine,
                 response_event, last_response, received,
                 running, listening, ping_response_seen>>
  /\ UNCHANGED <<arg, ret, coordinator, db>>

\* a response-1 handler resumes after its await on self.send
ResumeSend(i) ==
  /\ i \in 1..Len(suspended)
  /\ suspended[i].ahead = 0
  /\ LET k == suspended[i].hs
         e == after_full_verify_request_2(machines[k], k)
     IN  /\ machines' = [machines EXCEPT ![k] = e.m]
         /\ cb' = e.cb
         /\ Called(e.cb, op)
  /\ suspended' = [j \in 1..(Len(suspended) - 1) |->
                     IF j < i THEN suspended[j] ELSE suspended[j + 1]]
  /\ out' = None
  /\ UNCHANGED <<bleak_client, connection_state, credentials, state_machine,
                 response_event, last_response, tasks, handshake_done, received,
                 running, listening, ping_response_seen>>
  /\ UNCHANGED <<arg, ret, coordinator, db>>

(***************************************************************************)
(* The operations of Flic2Client.  Each is a coroutine: the step that      *)
(* starts it runs to its first await, the later steps run from one await   *)
(* to the next.  `written` is whether the transport takes the write; when  *)
(* it does not, write_gatt_char raises and the exception leaves the call.  *)
(***************************************************************************)
Quiet == out' = None /\ cb' = <<>>

\* Flic2Client.connect up to its await on the transport's connect
ConnectStart ==
  /\ Idle
  /\ IF is_connected
     THEN /\ bleak_client' = "None"                \* self.disconnect()
          /\ session' = SessionState
          /\ running' = FALSE
     ELSE UNCHANGED <<bleak_client, session, running>>
  /\ connection_state' = "CONNECTING"
  /\ handshake_done' = FALSE
  /\ UNCHANGED <<received, listening, ping_response_seen>>
  /\ op' = Suspend([NoOp EXCEPT !.name = "connect", !.pc = "wait"])
  /\ Quiet
  /\ UNCHANGED <<credentials, encoder_key, decoder_key, machines, state_machine,
                 response_event, last_response, tasks, suspended>>
  /\ UNCHANGED <<arg, ret, coordinator, db>>

\* the transport connects and start_notify returns, or the attempt fails
ConnectDone(ok) ==
  /\ op.name = "connect" /\ op.pc = "wait"
  /\ Resumable
  /\ IF ok
     THEN /\ bleak_client' = "connected"
          /\ connection_state' = "CONNECTED"
          /\ op' = Return("connect", "True")
     ELSE /\ UNCHANGED bleak_client
          /\ connection_state' = "DISCONNECTED"
          /\ op' = Return("connect", "ConnectionError")
  /\ Quiet
  /\ UNCHANGED <<credentials, session, encoder_key, decoder_key, machines,
                 state_machine, response_event, last_response, tasks, suspended,
                 handshake_done, received,
                 running, listening, ping_response_seen>>
  /\ UNCHANGED <<arg, ret, coordinator, db>>

\* what disconnect() does once the transport's disconnect is over: the
\* handle is dropped in the finally clause whether or not the call raised;
\* when it raised, the exception is logged as a warning, kept here in `error`
Disconnected(raised) ==
  /\ bleak_client' = "None"
  /\ session' = SessionState
  /\ connection_state' = "DISCONNECTED"
  /\ running' = FALSE
  /\ handshake_done' = FALSE
  /\ op' = [Return("disconnect", "None") EXCEPT
              !.error = IF raised
                        THEN ErrorMsg("Error during disconnect", "BleakError")
                        ELSE None]

\* Flic2Client.disconnect up to its await on the transport's disconnect;
\* with no live link there is nothing to await
DisconnectStart ==
  /\ Idle
  /\ IF is_connected
     THEN /\ op' = Suspend([NoOp EXCEPT !.name = "disconnect", !.pc = "wait"])
          /\ UNCHANGED <<bleak_client, session, connection_state, running,
                         handshake_done>>
     ELSE Disconnected(FALSE)
  /\ Quiet
  /\ UNCHANGED <<credentials, encoder_key, decoder_key, machines, state_machine,
                 response_event, last_response, tasks, suspended, listening,
                 received, ping_response_seen>>
  /\ UNCHANGED <<arg, ret, coordinator, db>>

\* a disconnect() that lets an exception of the transport escape
DisconnectDoneUncaught(raised) ==
  /\ op.name = "disconnect" /\ op.pc = "wait"
  /\ Resumable
  /\ IF raised
     THEN /\ op' = Return("disconnect", "BleakError")
          /\ UNCHANGED <<bleak_client, session, connection_state, running,
                         handshake_done>>
     ELSE Disconnected(FALSE)
  /\ Quiet
  /\ UNCHANGED <<credentials, encoder_key, decoder_key, machines, state_machine,
                 response_event, last_response, tasks, suspended, listening,
                 received, ping_response_seen>>
  /\ UNCHANGED <<arg, ret, coordinator, db>>

\* Flic2Client.disconnect after the transport's disconnect returned or raised
DisconnectDone(raised) ==
  /\ op.name = "disconnect" /\ op.pc = "wait"
  /\ Resumable
  /\ Disconnected(raised)
  /\ Quiet
  /\ UNCHANGED <<credentials, encoder_key, decoder_key, machines, state_machine,
                 response_event, last_response, tasks, suspended, listening,
                 received, ping_response_seen>>
  /\ UNCHANGED <<arg, ret, coordinator, db>>

\* Flic2Client.pair through PairingStateMachine.start_full_verify's send
PairCall(written, limit) ==
  /\ Idle
  /\ Len(machines) < limit
  /\ IF ~is_connected
     THEN /\ op' = Return("pair", "ConnectionError")
          /\ Quiet
          /\ UNCHANGED <<connection_state, machines, state_machine>>
     ELSE LET k == Len(machines) + 1
              m == PairingStateMachine(k, None)
          IN  /\ connection_state' = "PAIRING"
              /\ machines' = Append(machines, m)
              /\ state_machine' = k
              /\ cb' = <<>>
              /\ IF written
                 THEN /\ out' = encode_full_verify_request_1(m.encoder, m.ctx.nonce)
                      /\ op' = Suspend([NoOp EXCEPT !.name = "pair",
                                                    !.pc = "send", !.hs = k])
                 ELSE /\ out' = None
                      /\ op' = [Return("pair", "BleakError") EXCEPT !.hs = k]
  /\ UNCHANGED <<bleak_client, credentials, session, encoder_key, decoder_key,
                 response_event, last_response, tasks, suspended, handshake_done, received,
                 running, listening, ping_response_seen>>
  /\ UNCHANGED <<arg, ret, coordinator, db>>

PairStart(written) == PairCall(written, MaxHandshakes)

\* start_full_verify after its send; pair() starts to wait for pairing_complete
PairSent ==
  /\ op.name = "pair" /\ op.pc = "send"
  /\ Resumable
  /\ machines' = [machines EXCEPT
                    ![op.hs].state = "FULL_VERIFY_REQUEST_1_SENT",
                    ![op.hs].path = Append(@, "FULL_VERIFY_REQUEST_1_SENT")]
  /\ op' = IF op.complete THEN [op EXCEPT !.pc = "wait"]
           ELSE Suspend([op EXCEPT !.pc = "wait"])
  /\ Quiet
  /\ UNCHANGED <<bleak_client, connection_state, credentials, session,
                 encoder_key, decoder_key, state_machine, response_event,
                 last_response, tasks, suspended, handshake_done, received,
                 running, listening, ping_response_seen>>
  /\ UNCHANGED <<arg, ret, coordinator, db>>

\* pair() after pairing_complete was set
PairWake ==
  /\ op.name = "pair" /\ op.pc = "wait" /\ op.complete
  /\ Resumable
  /\ IF op.error # None
     THEN /\ connection_state' = "CONNECTED"
          /\ op' = [Return("pair", "PairingError") EXCEPT !.error = op.error]
          /\ UNCHANGED <<credentials, session>>
     ELSE IF op.result_credentials # None
     THEN /\ credentials' = op.result_credentials
          /\ session' = [session EXCEPT !.is_paired = TRUE]
          /\ connection_state' = "READY"
          /\ op' = Return("pair", "credentials")
     ELSE /\ op' = Return("pair", "PairingError")
          /\ UNCHANGED <<connection_state, credentials, session>>
  /\ Quiet
  /\ UNCHANGED <<bleak_client, encoder_key, decoder_key, machines, state_machine,
                 response_event, last_response, tasks, suspended, handshake_done, received,
                 running, listening, ping_response_seen>>
  /\ UNCHANGED <<arg, ret, coordinator, db>>

\* pair(): the wait for pairing_complete times out
PairTimeout ==
  /\ op.name = "pair" /\ op.pc = "wait" /\ ~op.complete
  /\ Resumable
  /\ connection_state' = "CONNECTED"
  /\ op' = Return("pair", "TimeoutError")
  /\ Quiet
  /\ UNCHANGED <<bleak_client, credentials, session, encoder_key, decoder_key,
                 machines, state_machine, response_event, last_response, tasks,
                 suspended, handshake_done, received,
                 running, listening, ping_response_seen>>
  /\ UNCHANGED <<arg, ret, coordinator, db>>

\* Flic2Client.quick_verify through start_quick_verify's send
QuickVerifyCall(written, limit) ==
  /\ Idle
  /\ Len(machines) < limit
  /\ IF ~is_connected
     THEN /\ op' = Return("quick_verify", "ConnectionError")
          /\ Quiet
          /\ UNCHANGED <<connection_state, machines, state_machine>>
     ELSE IF credentials = None
     THEN /\ op' = Return("quick_verify", "NotPairedError")
          /\ Quiet
          /\ UNCHANGED <<connection_state, machines, state_machine>>
     ELSE LET k == Len(machines) + 1
              m == PairingStateMachine(k, credentials)
          IN  /\ connection_state' = "QUICK_VERIFYING"
              /\ machines' = Append(machines, m)
              /\ state_machine' = k
              /\ cb' = <<>>
              /\ IF written
                 THEN /\ out' = encode_quick_verify_request(
                                  m.encoder, credentials.pairing_id, m.ctx.nonce)
                      /\ op' = Suspend([NoOp EXCEPT !.name = "quick_verify",
                                                    !.pc = "send", !.hs = k])
                 ELSE /\ out' = None
                      /\ op' = [Return("quick_verify", "BleakError") EXCEPT !.hs = k]
  /\ UNCHANGED <<bleak_client, credentials, session, encoder_key, decoder_key,
                 response_event, last_response, tasks, suspended, handshake_done, received,
                 running, listening, ping_response_seen>>
  /\ UNCHANGED <<arg, ret, coordinator, db>>

QuickVerifyStart(written) == QuickVerifyCall(written, MaxHandshakes)

\* start_quick_verify after its send; quick_verify() starts to wait
QuickVerifySent ==
  /\ op.name = "quick_verify" /\ op.pc = "send"
  /\ Resumable
  /\ machines' = [machines EXCEPT
                    ![op.hs].state = "QUICK_VERIFY_REQUEST_SENT",
                    ![op.hs].path = Append(@, "QUICK_VERIFY_REQUEST_SENT")]
  /\ op' = IF op.complete THEN [op EXCEPT !.pc = "wait"]
           ELSE Suspend([op EXCEPT !.pc = "wait"])
  /\ Quiet
  /\ UNCHANGED <<bleak_client, connection_state, credentials, session,
                 encoder_key, decoder_key, state_machine, response_event,
                 last_response, tasks, suspended, handshake_done, received,
                 running, listening, ping_response_seen>>
  /\ UNCHANGED <<arg, ret, coordinator, db>>

\* quick_verify() after verify_complete was set
QuickVerifyWake ==
  /\ op.name = "quick_verify" /\ op.pc = "wait" /\ op.complete
  /\ Resumable
  /\ IF op.error # None
     THEN /\ connection_state' = "CONNECTED"
          /\ op' = [Return("quick_verify", "PairingError")
                      EXCEPT !.error = op.error]
          /\ UNCHANGED session
     ELSE /\ session' = [session EXCEPT
                           !.conn_id = machines[state_machine].ctx.conn_id,
                           !.is_paired = TRUE]
          /\ connection_state' = "READY"
          /\ op' = Return("quick_verify", "True")
  /\ Quiet
  /\ UNCHANGED <<bleak_client, credentials, encoder_key, decoder_key, machines,
                 state_machine, response_event, last_response, tasks, suspended,
                 handshake_done, received,
                 running, listening, ping_response_seen>>
  /\ UNCHANGED <<arg, ret, coordinator, db>>

\* quick_verify(): the wait for verify_complete times out
QuickVerifyTimeout ==
  /\ op.name = "quick_verify" /\ op.pc = "wait" /\ ~op.complete
  /\ Resumable
  /\ connection_state' = "CONNECTED"
  /\ op' = Return("quick_verify", "TimeoutError")
  /\ Quiet
  /\ UNCHANGED <<bleak_client, credentials, session, encoder_key, decoder_key,
                 machines, state_machine, response_event, last_response, tasks,
                 suspended, handshake_done, received,
                 running, listening, ping_response_seen>>
  /\ UNCHANGED <<arg, ret, coordinator, db>>

(***************************************************************************)
(* InitButtonEventsLight payload: event_count(4) boot_id(4) bitfield(5),   *)
(* all little-endian.  The 35-bit bitfield is held as its low 14 bits and  *)
(* the bits above them.                                                    *)
(***************************************************************************)
auto_disconnect_time == 511
max_queued_packets == 31
max_queued_packets_age == 1048575
enable_hid == 0

bitfield_bytes ==
  LET low == auto_disconnect_time + max_queued_packets * 512
      high == max_queued_packets_age + enable_hid * 1048576
  IN  << low % 256,
         (low \div 256) + (high % 4) * 64,
         (high \div 4) % 256,
         (high \div 1024) % 256,
         high \div 262144 >>

InitButtonEventsPayload == Bytes(<<0, 0, 0, 0,  0, 0, 0, 0>> \o bitfield_bytes)

\* Flic2Client.init_button_events through its send
InitButtonEventsStart(written) ==
  /\ Idle
  /\ session.tx_counter < MaxTx
  /\ IF ~is_connected \/ session.session_key = None
     THEN /\ op' = Return("init_button_events", "NotPairedError")
          /\ Quiet
          /\ UNCHANGED session
     ELSE LET payload == InitButtonEventsPayload
              signature == mac_with_dir_and_counter(
                             session.session_key,
                             Msg(<<INIT_BUTTON_EVENTS>>, payload),
                             1, session.tx_counter)
              packet == Raw(session.conn_id % 32, INIT_BUTTON_EVENTS, payload,
                            signature)
          IN  /\ session' = [session EXCEPT !.tx_counter = @ + 1]
              /\ cb' = <<>>
              /\ IF written
                 THEN /\ out' = packet
                      /\ op' = Suspend([NoOp EXCEPT !.name = "init_button_events",
                                                    !.pc = "send"])
                 ELSE /\ out' = None
                      /\ op' = Return("init_button_events", "BleakError")
  /\ UNCHANGED <<bleak_client, connection_state, credentials, encoder_key,
                 decoder_key, machines, state_machine, response_event,
                 last_response, tasks, suspended, handshake_done, received,
                 running, listening, ping_response_seen>>
  /\ UNCHANGED <<arg, ret, coordinator, db>>

\* _wait_for_response up to its await: the latch is cleared
WaitForResponse(name) ==
  /\ op.name = name /\ op.pc = "send"
  /\ Resumable
  /\ response_event' = FALSE
  /\ op' = Suspend([op EXCEPT !.pc = "wait"])
  /\ Quiet
  /\ UNCHANGED <<bleak_client, connection_state, credentials, session,
                 encoder_key, decoder_key, machines, state_machine,
                 last_response, tasks, suspended, handshake_done, received,
                 running, listening, ping_response_seen>>
  /\ UNCHANGED <<arg, ret, coordinator, db>>

InitButtonEventsSent == WaitForResponse("init_button_events")

\* init_button_events after the latch was set: the reply is _last_response
InitButtonEventsWake ==
  /\ op.name = "init_button_events" /\ op.pc = "wait" /\ response_event
  /\ Resumable
  /\ LET response == last_response
         opcode == IF RawLen(response) > 1 THEN response.opcode ELSE 0
     IN  op' = IF opcode = DISCONNECTED_LINK
               THEN Return("init_button_events", "False")
               ELSE IF opcode \in {INIT_BUTTON_EVENTS_RESPONSE,
                                   INIT_BUTTON_EVENTS_NO_BOOT}
               THEN Return("init_button_events", "True")
               ELSE Return("init_button_events", "False")
  /\ Quiet
  /\ UNCHANGED <<bleak_client, connection_state, credentials, session,
                 encoder_key, decoder_key, machines, state_machine,
                 response_event, last_response, tasks, suspended, handshake_done, received,
                 running, listening, ping_response_seen>>
  /\ UNCHANGED <<arg, ret, coordinator, db>>

\* _wait_for_response times out
ResponseTimeout(name) ==
  /\ op.name = name /\ op.pc = "wait" /\ ~response_event
  /\ Resumable
  /\ op' = Return(name, "False")
  /\ Quiet
  /\ UNCHANGED <<bleak_client, connection_state, credentials, session,
                 encoder_key, decoder_key, machines, state_machine,
                 response_event, last_response, tasks, suspended, handshake_done, received,
                 running, listening, ping_response_seen>>
  /\ UNCHANGED <<arg, ret, coordinator, db>>

InitButtonEventsTimeout == ResponseTimeout("init_button_events")

\* Flic2Client.ping through its send
PingStart(written) ==
  /\ Idle
  /\ ping_response_seen' = FALSE
  /\ IF ~is_connected
     THEN op' = Return("ping", "False") /\ Quiet
     ELSE /\ cb' = <<>>
          /\ IF written
             THEN /\ out' = encode_ping(encoder_key, session.conn_id)
                  /\ op' = Suspend([NoOp EXCEPT !.name = "ping", !.pc = "send"])
             ELSE /\ out' = None
                  /\ op' = Return("ping", "BleakError")
  /\ UNCHANGED <<bleak_client, connection_state, credentials, session,
                 encoder_key, decoder_key, machines, state_machine,
                 response_event, last_response, tasks, suspended, handshake_done, received,
                 running, listening>>
  /\ UNCHANGED <<arg, ret, coordinator, db>>

PingSent == WaitForResponse("ping")

\* ping after the latch was set
PingWake ==
  /\ op.name = "ping" /\ op.pc = "wait" /\ response_event
  /\ Resumable
  /\ op' = Return("ping", "True")
  /\ Quiet
  /\ UNCHANGED <<bleak_client, connection_state, credentials, session,
                 encoder_key, decoder_key, machines, state_machine,
                 response_event, last_response, tasks, suspended, handshake_done, received,
                 running, listening, ping_response_seen>>
  /\ UNCHANGED <<arg, ret, coordinator, db>>

PingTimeout == ResponseTimeout("ping")

\* Flic2Client.listen up to its first sleep
ListenStart ==
  /\ Idle
  /\ ~listening
  /\ IF connection_state # "READY"
     THEN /\ op' = Return("listen", "NotPairedError")
          /\ UNCHANGED <<running, listening>>
     ELSE /\ running' = TRUE
          /\ IF is_connected
             THEN /\ listening' = TRUE
                  /\ op' = [NoOp EXCEPT !.name = "listen"]
             ELSE /\ UNCHANGED listening
                  /\ op' = Return("listen", "None")
  /\ Quiet
  /\ UNCHANGED <<bleak_client, connection_state, credentials, session,
                 encoder_key, decoder_key, machines, state_machine,
                 response_event, last_response, tasks, suspended,
                 handshake_done, received, ping_response_seen>>
  /\ UNCHANGED <<arg, ret, coordinator, db>>

\* listen() with the loop condition `self._running or self.is_connected`
ListenWakeEitherHolds ==
  /\ listening
  /\ ~(running \/ is_connected)
  /\ listening' = FALSE
  /\ Quiet
  /\ UNCHANGED <<bleak_client, connection_state, credentials, session,
                 encoder_key, decoder_key, machines, state_machine,
                 response_event, last_response, tasks, suspended, op, running,
                 handshake_done, received, ping_response_seen>>
  /\ UNCHANGED <<arg, ret, coordinator, db>>

\* listen() wakes from a sleep and finds its loop condition false; a wake
\* that finds it true sleeps again and changes nothing
ListenWake ==
  /\ listening
  /\ ~(running /\ is_connected)
  /\ listening' = FALSE
  /\ Quiet
  /\ UNCHANGED <<bleak_client, connection_state, credentials, session,
                 encoder_key, decoder_key, machines, state_machine,
                 response_event, last_response, tasks, suspended, op, running,
                 handshake_done, received, ping_response_seen>>
  /\ UNCHANGED <<arg, ret, coordinator, db>>

\* Flic2Client.stop
Stop ==
  /\ running' = FALSE
  /\ Quiet
  /\ UNCHANGED <<bleak_client, connection_state, credentials, session,
                 encoder_key, decoder_key, machines, state_machine,
                 response_event, last_response, tasks, suspended, op, listening,
                 handshake_done, received, ping_response_seen>>
  /\ UNCHANGED <<arg, ret, coordinator, db>>

(***************************************************************************)
(* The event loop runs any coroutine that is ready; the transport and the  *)
(* application act at any time.                                            *)
(***************************************************************************)
Next ==
  \/ \E data \in Inbound : Notify(data)
  \/ OnDisconnect
  \/ \E written \in BOOLEAN : ProcessPacket(written)
  \/ \E i \in 1..MaxTasks : ResumeSend(i)
  \/ ConnectStart
  \/ \E ok \in BOOLEAN : ConnectDone(ok)
  \/ DisconnectStart
  \/ \E raised \in BOOLEAN : DisconnectDone(raised)
  \/ \E written \in BOOLEAN : PairStart(written)
  \/ PairSent
  \/ PairWake
  \/ PairTimeout
  \/ \E written \in BOOLEAN : QuickVerifyStart(written)
  \/ QuickVerifySent
  \/ QuickVerifyWake
  \/ QuickVerifyTimeout
  \/ \E written \in BOOLEAN : InitButtonEventsStart(written)
  \/ InitButtonEventsSent
  \/ InitButtonEventsWake
  \/ InitButtonEventsTimeout
  \/ \E written \in BOOLEAN : PingStart(written)
  \/ PingSent
  \/ PingWake
  \/ PingTimeout
  \/ ListenStart
  \/ ListenWake
  \/ Stop

Spec == Init /\ [][Next]_vars

(***************************************************************************)
(* The event loop does not starve what is ready: a task that was created   *)
(* runs, and a coroutine whose await is over (the write returned, the      *)
(* event was set, the timer fired) resumes.  Nothing obliges the button,   *)
(* the transport or the application to act.                                *)
(***************************************************************************)
EventLoop ==
  \/ \E written \in BOOLEAN : ProcessPacket(written)
  \/ \E i \in 1..MaxTasks : ResumeSend(i)
  \/ \E ok \in BOOLEAN : ConnectDone(ok)
  \/ \E raised \in BOOLEAN : DisconnectDone(raised)
  \/ PairSent \/ PairWake \/ PairTimeout
  \/ QuickVerifySent \/ QuickVerifyWake \/ QuickVerifyTimeout
  \/ InitButtonEventsSent \/ InitButtonEventsWake \/ InitButtonEventsTimeout
  \/ PingSent \/ PingWake \/ PingTimeout
  \/ ListenWake

FairSpec == Spec /\ WF_vars(EventLoop)

(***************************************************************************)
(* The codec called on its own.  The client is as constructed and stays    *)
(* so; `arg` is one call's arguments and `ret` becomes what it returned.   *)
(***************************************************************************)
\* a button event payload of n bytes: the press counter, then records whose
\* seventh byte is event_info (info1 in the first record, info2 in the rest)
EventBytes(counter, info1, info2, n) ==
  Bytes([i \in 1..n |->
           IF i <= 4 THEN counter[i]
           ELSE IF i = 11 THEN info1
           ELSE IF (i - 4) % 7 = 0 THEN info2
           ELSE i % 5])

DecodeButtonEventCalls ==
  { [fn |-> "decode_button_event",
     payload |-> EventBytes(counter, info1, info2, n)] :
      counter \in {<<7, 0, 0, 0>>, <<1, 2, 3, 4>>},
      info1 \in 0..255, info2 \in {1, 27}, n \in 0..MaxEventBytes }

\* a session key both codecs hold
CodecKey ==
  derive_quick_verify_session_key(StoredCredentials.pairing_key, 1, 1)

\* encode followed by decode under the same key, verifying iff signed
RoundTripCalls ==
  { [fn |-> "decode(encode)", chaskey |-> chaskey, opcode |-> opcode,
     payload |-> Bytes([i \in 1..n |-> i]), conn_id |-> conn_id,
     newly_assigned |-> newly_assigned, sign |-> sign] :
      chaskey \in {None, CodecKey},
      opcode \in {FULL_VERIFY_REQUEST_1, PING_REQUEST, INIT_BUTTON_EVENTS, 255},
      n \in 0..MaxPayloadLen, conn_id \in 0..CONN_ID_MASK,
      newly_assigned \in BOOLEAN, sign \in BOOLEAN }

\* decode with verification on, under a key: packets with no trailing MAC,
\* with the MAC of another key, and with the right MAC
DecodeCalls ==
  { [fn |-> "decode", chaskey |-> CodecKey,
     data |-> LET payload == Bytes([i \in 1..n |-> i])
                  message == Msg(<<hdr, opcode>>, payload)
              IN  Raw(hdr, opcode, payload,
                      CASE trailer = "none" -> None
                        [] trailer = "forged" -> mac5(ForgedKey, message)
                        [] trailer = "mac" -> mac5(CodecKey, message)),
     verify_signature |-> TRUE] :
      hdr \in {0, 5}, opcode \in {PING_RESPONSE, BUTTON_EVENT_NOTIFICATION},
      n \in 0..MaxPayloadLen, trailer \in {"none", "forged", "mac"} }

CodecInit ==
  /\ bleak_client = "None"
  /\ connection_state = "DISCONNECTED"
  /\ credentials = None
  /\ session = SessionState
  /\ encoder_key = None
  /\ decoder_key = None
  /\ machines = <<>>
  /\ state_machine = 0
  /\ response_event = FALSE
  /\ last_response = None
  /\ tasks = <<>>
  /\ suspended = <<>>
  /\ op = NoOp
  /\ out = None
  /\ cb = <<>>
  /\ running = FALSE
  /\ listening = FALSE
  /\ handshake_done = FALSE
  /\ received = 0
  /\ ping_response_seen = FALSE
  /\ arg \in DecodeButtonEventCalls \cup RoundTripCalls \cup DecodeCalls
  /\ ret = None
  /\ coordinator = Flic2Coordinator
  /\ db = {}

ClientUnchanged ==
  UNCHANGED <<bleak_client, connection_state, credentials, session,
              encoder_key, decoder_key, machines, state_machine,
              response_event, last_response, tasks, suspended, op, out, cb,
              running, listening, handshake_done, received,
              ping_response_seen, arg, coordinator, db>>

\* PacketDecoder.decode_button_event(payload)
CallDecodeButtonEvent ==
  /\ arg.fn = "decode_button_event"
  /\ ret = None
  /\ ret' = [value |-> decode_button_event(arg.payload)]
  /\ ClientUnchanged

\* PacketDecoder.decode(PacketEncoder.encode(...), verify_signature=sign)
CallRoundTrip ==
  /\ arg.fn = "decode(encode)"
  /\ ret = None
  /\ ret' = [value |->
               decode(arg.chaskey,
                      encode(arg.chaskey, arg.opcode, arg.payload, arg.conn_id,
                             arg.newly_assigned, arg.sign),
                      arg.sign)]
  /\ ClientUnchanged

\* PacketDecoder.decode(data, verify_signature)
CallDecode ==
  /\ arg.fn = "decode"
  /\ ret = None
  /\ ret' = [value |-> decode(arg.chaskey, arg.data, arg.verify_signature)]
  /\ ClientUnchanged

CodecNext == CallDecodeButtonEvent \/ CallRoundTrip \/ CallDecode

CodecSpec == CodecInit /\ [][CodecNext]_vars

(***************************************************************************)
(* Chaskey-LTS step by step (crypto/chaskey_lts.py).  The state v of a MAC *)
(* computation is the sequence of the steps applied to it: a load of the   *)
(* key, XORs of an operand into some of the words v[0..3], and             *)
(* permutations.  A block is unpacked into four little-endian words, each  *)
(* kept as its four bytes.  The output names the bytes of v that are       *)
(* packed.  v[j] ^= block[j] ^ subkey[j] is the XOR of the block followed  *)
(* by the XOR of the subkey.                                               *)
(***************************************************************************)
block_size == 16

Load(key) == [op |-> "load", words |-> {0, 1, 2, 3}, x |-> key, val |-> <<>>]
Xor(words, x, val) == [op |-> "xor", words |-> words, x |-> x, val |-> val]
Permute == [op |-> "permute", words |-> {0, 1, 2, 3}, x |-> "", val |-> <<>>]

\* struct.unpack("<4I", block)
unpack4I(block) == [j \in 1..4 |-> SubSeq(block, 4 * (j - 1) + 1, 4 * j)]

\* message[i:i + block_size]
Block(message, i) ==
  SubSeq(message, i + 1,
         IF i + block_size < Len(message) THEN i + block_size ELSE Len(message))

\* the body of both loops: v ^= block; v = _permute(v)
Absorb(v, block) ==
  v \o <<Xor({0, 1, 2, 3}, "block", unpack4I(block)), Permute>>

\* the loop of mac(): while i + block_size <= len(message)
RECURSIVE mac_loop(_, _, _)
mac_loop(v, message, i) ==
  IF i + block_size <= Len(message)
  THEN mac_loop(Absorb(v, Block(message, i)), message, i + block_size)
  ELSE [v |-> v, i |-> i]

mac_with_dir_and_counter_loop_inclusive(v, message, i) ==
  mac_loop(v, message, i)

\* the loop of mac_with_dir_and_counter(): while i + block_size < len(message)
RECURSIVE mac_with_dir_and_counter_loop(_, _, _)
mac_with_dir_and_counter_loop(v, message, i) ==
  IF i + block_size < Len(message)
  THEN mac_with_dir_and_counter_loop(Absorb(v, Block(message, i)), message,
                                     i + block_size)
  ELSE [v |-> v, i |-> i]

\* "Handle last block" of both functions: the block and its subkey
last_block(remaining) ==
  IF Len(remaining) < block_size
  THEN [block |-> [n \in 1..block_size |->
                     IF n <= Len(remaining) THEN remaining[n]
                     ELSE IF n = Len(remaining) + 1 THEN 1
                     ELSE 0],
        subkey |-> "k2"]
  ELSE [block |-> remaining, subkey |-> "k1"]

\* ChaskeyLTS.mac(message)
mac(message) ==
  LET l == mac_loop(<<Load("k")>>, message, 0)
      last == last_block(SubSeq(message, l.i + 1, Len(message)))
  IN  [v |-> l.v \o <<Xor({0, 1, 2, 3}, "block", unpack4I(last.block)),
                      Xor({0, 1, 2, 3}, last.subkey, <<>>),
                      Permute,
                      Xor({0, 1, 2, 3}, "k", <<>>)>>,
       \* struct.pack("<4I", v[0], v[1], v[2], v[3])
       out |-> [n \in 1..16 |-> [word |-> (n - 1) \div 4, byte |-> (n - 1) % 4]]]

\* ChaskeyLTS.mac_with_dir_and_counter(message, direction, counter), for
\* counters below 2^31 (counter >> 32 is 0)
mac_with_dir_and_counter_steps(message, direction, counter) ==
  LET l == mac_with_dir_and_counter_loop(
             <<Load("k"),
               Xor({0}, "counter & 0xFFFFFFFF", <<counter>>),
               Xor({1}, "(counter >> 32) & 0xFFFFFFFF", <<0>>),
               Xor({2}, "direction", <<direction>>),
               Permute>>,
             message, 0)
      last == last_block(SubSeq(message, l.i + 1, Len(message)))
  IN  [v |-> l.v \o <<Xor({0, 1, 2, 3}, "block", unpack4I(last.block)),
                      Xor({0, 1, 2, 3}, last.subkey, <<>>),
                      Permute,
                      Xor({0, 1}, last.subkey, <<>>)>>,
       \* struct.pack("<IB", v[0], v[1] & 0xFF)
       out |-> [n \in 1..5 |-> [word |-> (n - 1) \div 4, byte |-> (n - 1) % 4]]]

\* the calls: messages of every length up to MaxMacLen, with bytes that
\* differ from one position to the next
MacCalls ==
  LET MacMessages == { [i \in 1..n |-> (seed + 3 * i) % 256] :
                         n \in 0..MaxMacLen, seed \in {0, 200} }
  IN  { [fn |-> "mac", message |-> m, direction |-> 0, counter |-> 0] :
          m \in MacMessages }
      \cup
      { [fn |-> "mac_with_dir_and_counter", message |-> m, direction |-> d,
         counter |-> c] : m \in MacMessages, d \in {0, 1}, c \in 0..MaxTx }

ChaskeyInit ==
  /\ bleak_client = "None"
  /\ connection_state = "DISCONNECTED"
  /\ credentials = None
  /\ session = SessionState
  /\ encoder_key = None
  /\ decoder_key = None
  /\ machines = <<>>
  /\ state_machine = 0
  /\ response_event = FALSE
  /\ last_response = None
  /\ tasks = <<>>
  /\ suspended = <<>>
  /\ op = NoOp
  /\ out = None
  /\ cb = <<>>
  /\ running = FALSE
  /\ listening = FALSE
  /\ handshake_done = FALSE
  /\ received = 0
  /\ ping_response_seen = FALSE
  /\ arg \in MacCalls
  /\ ret = None
  /\ coordinator = Flic2Coordinator
  /\ db = {}

\* ChaskeyLTS(key).mac(message)
CallMac ==
  /\ arg.fn = "mac"
  /\ ret = None
  /\ ret' = [value |-> mac(arg.message)]
  /\ ClientUnchanged

\* ChaskeyLTS(key).mac_with_dir_and_counter(message, direction, counter)
CallMacWithDirAndCounter ==
  /\ arg.fn = "mac_with_dir_and_counter"
  /\ ret = None
  /\ ret' = [value |-> mac_with_dir_and_counter_steps(arg.message,
                                                      arg.direction,
                                                      arg.counter)]
  /\ ClientUnchanged

ChaskeySpec == ChaskeyInit /\ [][CallMac \/ CallMacWithDirAndCounter]_vars

(***************************************************************************)
(* crypto/ed25519.py verify_button_identity byte by byte.  The signature   *)
(* is its 64 bytes.  What Ed25519PublicKey.verify accepts is an input: an  *)
(* oracle holding the message Flic signed, the 63 bytes of a signature     *)
(* other than byte 32, and the values of byte 32 that verify with them.    *)
(***************************************************************************)
\* (orig & 0xFC) | sig_bits, for sig_bits in range(4)
candidate_byte_unmasked(orig, sig_bits) ==
  LET low == orig % 4
  IN  (orig - low)
      + (IF low % 2 = 1 \/ sig_bits % 2 = 1 THEN 1 ELSE 0)
      + (IF low \div 2 = 1 \/ sig_bits \div 2 = 1 THEN 2 ELSE 0)

candidate_byte(orig, sig_bits) == (orig \div 4) * 4 + sig_bits

\* the bytes of a signature other than byte 32 (index 33 of the sequence)
OtherBytes(sig) == [sig EXCEPT ![33] = 0]

\* public_key.verify(signature, message): TRUE when it returns, FALSE when
\* it raises InvalidSignature
Ed25519Verify(oracle, signature, message) ==
  /\ message = oracle.message
  /\ OtherBytes(signature) = oracle.other
  /\ signature[33] \in oracle.byte32

\* the for loop of verify_button_identity from sig_bits on
RECURSIVE verify_button_identity_loop(_, _, _, _, _)
verify_button_identity_loop(oracle, signature, sig_array, message, sig_bits) ==
  IF sig_bits >= 4
  THEN [raises |-> "InvalidSignatureError"]
  ELSE LET tried == [sig_array EXCEPT
                       ![33] = candidate_byte(signature[33], sig_bits)]
       IN  IF Ed25519Verify(oracle, tried, message)
           THEN [returns |-> sig_bits]
           ELSE verify_button_identity_loop(oracle, signature, tried, message,
                                            sig_bits + 1)

\* verify_button_identity(signature, address, address_type, ecdh_pubkey)
verify_button_identity_bytes(oracle, signature, address, address_type, pubkey) ==
  verify_button_identity_loop(oracle, signature, signature,
                              address \o <<address_type>> \o pubkey, 0)

\* the signature Flic issued, but for byte 32
IssuedSignature == [i \in 1..64 |-> (5 * i) % 256]
\* the button: its 6-byte address and its 32-byte X25519 public key
Button == [address |-> [i \in 1..6 |-> 16 * i],
           ecdh_pubkey |-> [i \in 1..32 |-> 100 + i]]

\* what verifies: over the message of this button or of another, any set of
\* the four candidates of a byte 32, or a byte 32 with other high bits
Oracles ==
  { [message |-> m, other |-> OtherBytes(IssuedSignature), byte32 |-> bs] :
      m \in { Button.address \o <<0>> \o Button.ecdh_pubkey,
              Button.address \o <<1>> \o Button.ecdh_pubkey,
              Button.ecdh_pubkey \o <<0>> \o Button.address },
      bs \in SUBSET {84, 85, 86, 87} \cup {{3}, {252, 255}} }

\* the calls; the signatures received have byte 32 with every pair of low
\* bits and several high bits, and one other byte of R or of s damaged or not
VerifyCalls ==
  LET ReceivedSignatures ==
        { [[IssuedSignature EXCEPT ![33] = orig]
             EXCEPT ![damaged] = (@ + delta) % 256] :
            orig \in {0, 3, 86, 252, 255}, damaged \in {1, 34, 64},
            delta \in {0, 1} }
  IN  { [fn |-> "verify_button_identity", oracle |-> o, signature |-> sig,
         address |-> Button.address, address_type |-> t,
         ecdh_pubkey |-> Button.ecdh_pubkey] :
          o \in Oracles, sig \in ReceivedSignatures, t \in {0, 1} }

Ed25519Init ==
  /\ bleak_client = "None"
  /\ connection_state = "DISCONNECTED"
  /\ credentials = None
  /\ session = SessionState
  /\ encoder_key = None
  /\ decoder_key = None
  /\ machines = <<>>
  /\ state_machine = 0
  /\ response_event = FALSE
  /\ last_response = None
  /\ tasks = <<>>
  /\ suspended = <<>>
  /\ op = NoOp
  /\ out = None
  /\ cb = <<>>
  /\ running = FALSE
  /\ listening = FALSE
  /\ handshake_done = FALSE
  /\ received = 0
  /\ ping_response_seen = FALSE
  /\ arg \in VerifyCalls
  /\ ret = None
  /\ coordinator = Flic2Coordinator
  /\ db = {}

\* verify_button_identity(signature, address, address_type, ecdh_pubkey)
CallVerifyButtonIdentity ==
  /\ arg.fn = "verify_button_identity"
  /\ ret = None
  /\ ret' = [value |-> verify_button_identity_bytes(
                         arg.oracle, arg.signature, arg.address,
                         arg.address_type, arg.ecdh_pubkey)]
  /\ ClientUnchanged

Ed25519Spec == Ed25519Init /\ [][CallVerifyButtonIdentity]_vars

(***************************************************************************)
(* storage/database.py CredentialStorage.  db is the set of rows of table  *)
(* credentials (the timestamps are left out); address is its primary key.  *)
(* An address is the sequence of its characters.  arg is the latest call   *)
(* and ret what it returned.                                               *)
(***************************************************************************)
\* str.upper() on the characters of an address
upper(str) ==
  [i \in DOMAIN str |->
     CASE str[i] = "a" -> "A" [] str[i] = "b" -> "B" [] str[i] = "c" -> "C"
       [] str[i] = "d" -> "D" [] str[i] = "e" -> "E" [] str[i] = "f" -> "F"
       [] OTHER -> str[i]]

\* Python's `value or default` for a column save() filled from a str or an
\* int field; empty is the falsy value of the type
PyOr(value, empty, default) ==
  IF value = empty THEN default ELSE value

\* CredentialStorage.save: INSERT OR REPLACE
save(rows, c) ==
  LET row == [c EXCEPT !.address = upper(c.address)]
  IN  {r \in rows : r.address # row.address} \cup {row}

\* CredentialStorage.load: the row with the address, as PairingCredentials
load(rows, address) ==
  LET found == {r \in rows : r.address = upper(address)}
  IN  IF found = {} THEN None
      ELSE LET row == CHOOSE r \in found : TRUE
           IN  [address |-> row.address,
                pairing_id |-> row.pairing_id,
                pairing_key |-> row.pairing_key,
                button_uuid |-> PyOr(row.button_uuid, "", ""),
                name |-> PyOr(row.name, "", "Flic 2"),
                serial_number |-> PyOr(row.serial_number, "", ""),
                firmware_version |-> PyOr(row.firmware_version, 0, 0),
                last_boot_id |-> row.last_boot_id,
                last_event_count |-> row.last_event_count]

\* CredentialStorage.delete: the rows left
delete(rows, address) == {r \in rows : r.address # upper(address)}

\* CredentialStorage.update_event_tracking
update_event_tracking(rows, address, boot_id, event_count) ==
  IF boot_id = None /\ event_count = None THEN rows
  ELSE { IF r.address = upper(address)
         THEN [r EXCEPT
                 !.last_boot_id = IF boot_id = None THEN @ ELSE boot_id,
                 !.last_event_count = IF event_count = None THEN @
                                      ELSE event_count]
         ELSE r : r \in rows }

\* two buttons, the first written in three letter cases
StorageAddresses ==
  { <<"c", "0", "f", "e">>, <<"C", "0", "F", "E">>, <<"c", "0", "F", "e">>,
    <<"b", "e", "e", "f">> }

\* credentials as pairing leaves them (with the name the button reports, which
\* may be empty) and as a session with event tracking leaves them
StorageCredentials ==
  { [address |-> a, pairing_id |-> p.id, pairing_key |-> p.id + 10,
     button_uuid |-> p.uuid, name |-> p.name, serial_number |-> p.serial,
     firmware_version |-> p.fw, last_boot_id |-> p.boot,
     last_event_count |-> p.count] :
      a \in StorageAddresses,
      p \in { [id |-> 1, uuid |-> "uuid-1", name |-> "Desk", serial |-> "BA12",
               fw |-> 10, boot |-> None, count |-> None],
              [id |-> 2, uuid |-> "uuid-1", name |-> "", serial |-> "BA12",
               fw |-> 10, boot |-> None, count |-> None],
              [id |-> 1, uuid |-> "uuid-1", name |-> "Desk", serial |-> "BA12",
               fw |-> 10, boot |-> Some(7), count |-> Some(3)],
              [id |-> 3, uuid |-> "", name |-> "Flic 2", serial |-> "",
               fw |-> 0, boot |-> Some(0), count |-> Some(0)] } }

\* CredentialStorage.__init__ on a new database file
StorageInit ==
  /\ bleak_client = "None"
  /\ connection_state = "DISCONNECTED"
  /\ credentials = None
  /\ session = SessionState
  /\ encoder_key = None
  /\ decoder_key = None
  /\ machines = <<>>
  /\ state_machine = 0
  /\ response_event = FALSE
  /\ last_response = None
  /\ tasks = <<>>
  /\ suspended = <<>>
  /\ op = NoOp
  /\ out = None
  /\ cb = <<>>
  /\ running = FALSE
  /\ listening = FALSE
  /\ handshake_done = FALSE
  /\ received = 0
  /\ ping_response_seen = FALSE
  /\ arg = [fn |-> "__init__"]
  /\ ret = None
  /\ coordinator = Flic2Coordinator
  /\ db = {}

StorageOnly ==
  UNCHANGED <<bleak_client, connection_state, credentials, session,
              encoder_key, decoder_key, machines, state_machine,
              response_event, last_response, tasks, suspended, op, out, cb,
              running, listening, handshake_done, received,
              ping_response_seen, coordinator>>

\* CredentialStorage.save(credentials)
CallSave(c) ==
  /\ arg' = [fn |-> "save", credentials |-> c]
  /\ db' = save(db, c)
  /\ ret' = [value |-> None]
  /\ StorageOnly

\* CredentialStorage.load(address)
CallLoad(address) ==
  /\ arg' = [fn |-> "load", address |-> address]
  /\ db' = db
  /\ ret' = [value |-> load(db, address)]
  /\ StorageOnly

\* CredentialStorage.delete(address)
CallDelete(address) ==
  /\ arg' = [fn |-> "delete", address |-> address]
  /\ db' = delete(db, address)
  /\ ret' = [value |-> db' # db]
  /\ StorageOnly

\* CredentialStorage.update_event_tracking(address, boot_id, event_count)
CallUpdateEventTracking(address, boot_id, event_count) ==
  /\ arg' = [fn |-> "update_event_tracking", address |-> address,
             boot_id |-> boot_id, event_count |-> event_count]
  /\ db' = update_event_tracking(db, address, boot_id, event_count)
  /\ ret' = [value |-> None]
  /\ StorageOnly

\* CredentialStorage.exists(address)
CallExists(address) ==
  /\ arg' = [fn |-> "exists", address |-> address]
  /\ db' = db
  /\ ret' = [value |-> \E r \in db : r.address = upper(address)]
  /\ StorageOnly

StorageNext ==
  \/ \E c \in StorageCredentials : CallSave(c)
  \/ \E address \in StorageAddresses : CallLoad(address)
  \/ \E address \in StorageAddresses : CallDelete(address)
  \/ \E address \in StorageAddresses, boot_id \in {None, Some(8)},
        event_count \in {None, Some(4)} :
       CallUpdateEventTracking(address, boot_id, event_count)
  \/ \E address \in StorageAddresses : CallExists(address)

StorageSpec == StorageInit /\ [][StorageNext]_vars

(***************************************************************************)
(* A second handshake on a session in use.  The client starts as Spec      *)
(* leaves it after connect(), a quick_verify() that succeeded and an       *)
(* init_button_events() that returned True: one signed packet was sent.    *)
(* pair() and quick_verify() can then be called once more.                 *)
(***************************************************************************)
\* the machine of the quick verify that succeeded
RekeyFirstMachine ==
  LET m == PairingStateMachine(1, StoredCredentials)
      sent == [m EXCEPT !.state = "QUICK_VERIFY_REQUEST_SENT",
                        !.path = Append(@, "QUICK_VERIFY_REQUEST_SENT")]
      data == Raw(5, QUICK_VERIFY_RESPONSE, Abstract(8, [button_random |-> 1]),
                  None)
  IN  handle_quick_verify_response(sent, 1, decode(sent.decoder, data, FALSE)).m

RekeyInit ==
  /\ bleak_client = "connected"
  /\ connection_state = "READY"
  /\ credentials = StoredCredentials
  /\ session = [SessionState EXCEPT
                  !.conn_id = RekeyFirstMachine.ctx.conn_id,
                  !.session_key = RekeyFirstMachine.ctx.session_key,
                  !.tx_counter = 1,
                  !.is_paired = TRUE]
  /\ encoder_key = RekeyFirstMachine.ctx.session_key
  /\ decoder_key = RekeyFirstMachine.ctx.session_key
  /\ machines = <<RekeyFirstMachine>>
  /\ state_machine = 1
  /\ response_event = TRUE
  /\ last_response = Raw(5, INIT_BUTTON_EVENTS_RESPONSE,
                         Bytes(<<1, 0, 0, 0,  0, 0, 0, 0,  0, 0, 0, 0,  90>>), None)
  /\ tasks = <<>>
  /\ suspended = <<>>
  /\ op = [NoOp EXCEPT !.name = "init_button_events", !.result = "True"]
  /\ out = None
  /\ cb = <<>>
  /\ running = FALSE
  /\ listening = FALSE
  /\ handshake_done = TRUE
  /\ received = 2
  /\ ping_response_seen = FALSE
  /\ arg = None
  /\ ret = None
  /\ coordinator = Flic2Coordinator
  /\ db = {}

RekeyPairStart(written) == PairCall(written, MaxHandshakes + 1)

RekeyQuickVerifyStart(written) == QuickVerifyCall(written, MaxHandshakes + 1)

RekeyNext ==
  \/ \E data \in Inbound : Notify(data)
  \/ OnDisconnect
  \/ \E written \in BOOLEAN : ProcessPacket(written)
  \/ \E i \in 1..MaxTasks : ResumeSend(i)
  \/ ConnectStart
  \/ \E ok \in BOOLEAN : ConnectDone(ok)
  \/ DisconnectStart
  \/ \E raised \in BOOLEAN : DisconnectDone(raised)
  \/ \E written \in BOOLEAN : RekeyPairStart(written)
  \/ PairSent
  \/ PairWake
  \/ PairTimeout
  \/ \E written \in BOOLEAN : RekeyQuickVerifyStart(written)
  \/ QuickVerifySent
  \/ QuickVerifyWake
  \/ QuickVerifyTimeout
  \/ \E written \in BOOLEAN : InitButtonEventsStart(written)
  \/ InitButtonEventsSent
  \/ InitButtonEventsWake
  \/ InitButtonEventsTimeout
  \/ \E written \in BOOLEAN : PingStart(written)
  \/ PingSent
  \/ PingWake
  \/ PingTimeout
  \/ ListenStart
  \/ ListenWake
  \/ Stop

RekeySpec == RekeyInit /\ [][RekeyNext]_vars

(***************************************************************************)
(* The supervisor: Flic2Coordinator._async_connect, which runs connect,    *)
(* quick_verify and init_button_events and sorts what they raise.  An      *)
(* error message is text ": " detail; the phrase the supervisor looks for  *)
(* has no colon, so it is in the message iff it is in one of the parts.    *)
(***************************************************************************)
\* str.lower() on the parts of the messages the handlers produce
lower(str) ==
  CASE str = "No pairing exists on button (needs re-pairing)"
         -> "no pairing exists on button (needs re-pairing)"
    [] str = "QuickVerify failed" -> "quickverify failed"
    [] str = "FullVerify failed at step 1" -> "fullverify failed at step 1"
    [] str = "FullVerify failed at step 2" -> "fullverify failed at step 2"
    [] str = "Button is not in pairing mode" -> "button is not in pairing mode"
    [] str = "No valid sig_bits found" -> "no valid sig_bits found"
    [] str = "UNKNOWN" -> "unknown"
    [] str = "UNKNOWN(reason)" -> "unknown(reason)"
    [] str = "INVALID_VERIFIER" -> "invalid_verifier"
    [] str = "NOT_IN_PUBLIC_MODE" -> "not_in_public_mode"
    [] str = "TOO_MANY_PAIRINGS" -> "too_many_pairings"
    [] str = "NOT_IN_PAIRING_MODE" -> "not_in_pairing_mode"
    [] str = "INVALID_PAIRING_ID" -> "invalid_pairing_id"
    [] str = "INVALID_SIGNATURE" -> "invalid_signature"
    [] str = "NO_SPACE" -> "no_space"
    [] OTHER -> str

\* "no pairing exists" in str, for the strings above and their lower() images
has_no_pairing_exists(str) ==
  str = "no pairing exists on button (needs re-pairing)"

\* a supervisor that looks for the phrase in the message as raised
async_connect_except_as_raised(exc, error) ==
  IF exc = "PairingError"
  THEN IF has_no_pairing_exists(error.text) \/ has_no_pairing_exists(error.detail)
       THEN "ConfigEntryAuthFailed"
       ELSE "_schedule_reconnect"
  ELSE "_schedule_reconnect"

\* the except clauses of _async_connect: what the supervisor does with the
\* exception exc carrying message error
async_connect_except(exc, error) ==
  IF exc = "PairingError"
  THEN IF \/ has_no_pairing_exists(lower(error.text))
          \/ has_no_pairing_exists(lower(error.detail))
       THEN "ConfigEntryAuthFailed"
       ELSE "_schedule_reconnect"
  ELSE "_schedule_reconnect"

(***************************************************************************)
(* Flic2Coordinator: async_start, the connection attempt _async_connect,   *)
(* the reconnect task, the listen task and async_stop.  What the client's  *)
(* connect, quick_verify and init_button_events do in an attempt is an     *)
(* input: each await of the attempt returns or raises, and the client      *)
(* reports its connection state through _handle_connection_change.         *)
(* _async_connect runs in async_start ("start") or in the reconnect task   *)
(* ("reconnect"); the client itself is left as constructed.                *)
(***************************************************************************)
\* the awaits of the try block of _async_connect, in order
Stages == <<"connect", "quick_verify", "init_button_events">>

\* what the await of stage i can raise; init_button_events returning False
\* is turned into Exception by _async_connect
StageFailures(i) ==
  CASE i = 1 -> { [exc |-> "ConnectionError",
                   error |-> ErrorMsg("Failed to connect", "")] }
    [] i = 2 -> { [exc |-> "TimeoutError",
                   error |-> ErrorMsg("Quick verify timed out", "")],
                  [exc |-> "PairingError",
                   error |-> ErrorMsg("QuickVerify failed",
                               "No pairing exists on button (needs re-pairing)")],
                  [exc |-> "PairingError",
                   error |-> ErrorMsg("QuickVerify failed", "INVALID_SIGNATURE")] }
    [] i = 3 -> { [exc |-> "Exception",
                   error |-> ErrorMsg("Failed to initialize button events", "")] }

ConnectOutcomes ==
  {[exc |-> "none"]} \cup StageFailures(1) \cup StageFailures(2)
    \cup StageFailures(3)

\* a task that exists and is not done(): asleep, or inside _async_connect
Pending(task) == task \in {"sleeping", "connect", "quick_verify",
                           "init_button_events", "except"}

\* Flic2Coordinator._schedule_reconnect
schedule_reconnect(c) ==
  IF ~c.running THEN c
  ELSE IF Pending(c.reconnect_task) THEN c
  ELSE [c EXCEPT !.reconnect_task = "sleeping"]

CoordinatorInit ==
  /\ bleak_client = "None"
  /\ connection_state = "DISCONNECTED"
  /\ credentials = StoredCredentials
  /\ session = SessionState
  /\ encoder_key = None
  /\ decoder_key = None
  /\ machines = <<>>
  /\ state_machine = 0
  /\ response_event = FALSE
  /\ last_response = None
  /\ tasks = <<>>
  /\ suspended = <<>>
  /\ op = NoOp
  /\ out = None
  /\ cb = <<>>
  /\ running = FALSE
  /\ listening = FALSE
  /\ handshake_done = FALSE
  /\ received = 0
  /\ ping_response_seen = FALSE
  /\ arg = None
  /\ ret = None
  /\ coordinator = Flic2Coordinator
  /\ db = {}

CoordinatorOnly ==
  UNCHANGED <<bleak_client, connection_state, credentials, session,
              encoder_key, decoder_key, machines, state_machine,
              response_event, last_response, tasks, suspended, op, out, cb,
              running, listening, handshake_done, received,
              ping_response_seen, arg, ret, db>>

\* _async_connect from its entry to its first await, in a coordinator c that
\* is running; `found` is whether the device lookup finds the button.  The
\* result is c after it and whether the attempt goes on to connect.
async_connect_entry(c, found) ==
  LET c1 == [c EXCEPT !.attempts = @ + 1]
  IN  IF found THEN [c |-> c1, connecting |-> TRUE]
      ELSE [c |-> [schedule_reconnect(c1) EXCEPT !.last = "not_found"],
            connecting |-> FALSE]

\* where the coroutine that runs _async_connect is: async_start or the
\* reconnect task
At(c, by) == IF by = "start" THEN c.start ELSE c.reconnect_task

Move(c, by, to) ==
  IF by = "start" THEN [c EXCEPT !.start = to]
  ELSE [c EXCEPT !.reconnect_task = to]

\* Flic2Coordinator.async_start up to the first await of _async_connect
AsyncStart(found) ==
  /\ coordinator.start = "None"
  /\ coordinator.attempts < MaxAttempts
  /\ LET e == async_connect_entry([coordinator EXCEPT !.running = TRUE], found)
     IN  coordinator' = [e.c EXCEPT !.start = IF e.connecting THEN Stages[1]
                                              ELSE "done"]
  /\ CoordinatorOnly

\* one await of the try block of _async_connect returns or raises; after
\* the last the listen task is created; an exception is caught and the
\* except clause awaits the client's disconnect
AsyncConnectStep(by, outcome) ==
  /\ \E i \in DOMAIN Stages :
       /\ At(coordinator, by) = Stages[i]
       /\ outcome \in {[exc |-> "none"]} \cup StageFailures(i)
       /\ coordinator' =
            IF outcome.exc # "none"
            THEN Move([coordinator EXCEPT
                         !.available = FALSE,
                         !.last = async_connect_except(outcome.exc, outcome.error)],
                      by, "except")
            ELSE IF i < Len(Stages)
            THEN Move(coordinator, by, Stages[i + 1])
            ELSE Move([coordinator EXCEPT !.available = TRUE,
                                          !.listen_task = "listening",
                                          !.last = "ok"],
                      by, "done")
  /\ CoordinatorOnly

\* the except clause of _async_connect after the client's disconnect
AsyncConnectExcept(by) ==
  /\ At(coordinator, by) = "except"
  /\ coordinator' =
       Move(IF coordinator.last = "ConfigEntryAuthFailed"
            THEN coordinator
            ELSE schedule_reconnect(coordinator),
            by, "done")
  /\ CoordinatorOnly

\* _async_reconnect_after_delay after its sleep, up to the first await of
\* _async_connect
ReconnectWake(found) ==
  /\ coordinator.reconnect_task = "sleeping"
  /\ coordinator.attempts < MaxAttempts
  /\ IF ~coordinator.running
     THEN coordinator' = [coordinator EXCEPT !.reconnect_task = "done"]
     ELSE LET e == async_connect_entry(
                     [coordinator EXCEPT !.reconnect_task = Stages[1]], found)
          IN  coordinator' =
                IF e.connecting THEN e.c
                ELSE [e.c EXCEPT !.reconnect_task = "done"]
  /\ CoordinatorOnly

\* _async_listen: listen() returned or raised, the finally block runs
ListenEnd ==
  /\ coordinator.listen_task = "listening"
  /\ LET c == [coordinator EXCEPT !.listen_task = "done"]
     IN  coordinator' = IF c.running
                        THEN schedule_reconnect([c EXCEPT !.available = FALSE])
                        ELSE c
  /\ CoordinatorOnly

\* Flic2Coordinator.async_stop
AsyncStop ==
  /\ coordinator.running
  /\ coordinator' =
       [coordinator EXCEPT
          !.running = FALSE,
          !.reconnect_task = IF Pending(@) THEN "cancelled" ELSE @,
          !.listen_task = IF @ = "listening" THEN "cancelled" ELSE @,
          !.available = FALSE]
  /\ CoordinatorOnly

\* Flic2Coordinator._handle_connection_change, called by the client with its
\* new connection state while an attempt or the listen task uses the client
HandleConnectionChange(state) ==
  /\ \/ \E by \in {"start", "reconnect"} :
          At(coordinator, by) \in {"connect", "quick_verify",
                                   "init_button_events", "except"}
     \/ coordinator.listen_task = "listening"
  /\ coordinator' = [coordinator EXCEPT !.available = (state = "READY")]
  /\ CoordinatorOnly

CoordinatorNext ==
  \/ \E found \in BOOLEAN : AsyncStart(found)
  \/ \E state \in {"DISCONNECTED", "CONNECTED", "READY"} :
       HandleConnectionChange(state)
  \/ \E by \in {"start", "reconnect"}, outcome \in ConnectOutcomes :
       AsyncConnectStep(by, outcome)
  \/ \E by \in {"start", "reconnect"} : AsyncConnectExcept(by)
  \/ \E found \in BOOLEAN : ReconnectWake(found)
  \/ ListenEnd
  \/ AsyncStop

CoordinatorSpec == CoordinatorInit /\ [][CoordinatorNext]_vars

(***************************************************************************)
(* The claims of the specification, as formulas over the model.            *)
(***************************************************************************)

\* C1: after a successful pair(), FullVerifyRequest2 and every packet sent
\* afterwards (init_button_events, ping) carry in their header the conn_id
\* of the Full-Verify-Response-1 header of that handshake.
C1_ConnIdFromResponse1 ==
  (/\ out # None
   /\ state_machine # 0
   /\ \/ out.opcode = FULL_VERIFY_REQUEST_2
      \/ /\ out.opcode \in {INIT_BUTTON_EVENTS, PING_REQUEST}
         /\ session.is_paired
         /\ machines[state_machine].state = "FULL_VERIFY_COMPLETE")
  => out.hdr % (CONN_ID_MASK + 1) = machines[state_machine].ctx.conn_id

\* C2: while a handshake is in flight, a packet whose opcode is not the
\* response expected in that state moves the state machine to FAILED.
C2_UnexpectedOpcodeFails ==
  [][\A k \in DOMAIN machines :
       LET state == machines[k].state
           expected ==
             CASE state = "FULL_VERIFY_REQUEST_1_SENT" -> FULL_VERIFY_RESPONSE_1
               [] state = "FULL_VERIFY_REQUEST_2_SENT" -> FULL_VERIFY_RESPONSE_2
               [] OTHER -> QUICK_VERIFY_RESPONSE
       IN  (/\ tasks # <<>>
            /\ tasks' = Tail(tasks)
            /\ state_machine = k
            /\ state \in {"FULL_VERIFY_REQUEST_1_SENT",
                          "FULL_VERIFY_REQUEST_2_SENT",
                          "QUICK_VERIFY_REQUEST_SENT"}
            /\ Head(tasks).opcode # expected)
           => machines'[k].state = "FAILED"]_vars

\* C3: FAILED is terminal: once a state machine is FAILED, no step (a later
\* packet, or a handler resuming after its await on send) changes its state
\* or invokes one of its callbacks.
C3_FailedIsTerminal ==
  [][\A k \in DOMAIN machines :
       machines[k].state = "FAILED"
       => /\ machines'[k].state = "FAILED"
          /\ \A i \in DOMAIN cb' :
               cb'[i].name # "on_button_event" => cb'[i].hs # k]_vars

\* C4: every init_button_events or ping request sent while a session key is
\* installed ends with mac_with_dir_and_counter, dir = 1, counter =
\* tx_counter at send time, over header, opcode and payload.
C4_RequestsCarryCounterMac ==
  [][(/\ out' # None
      /\ out'.opcode \in {INIT_BUTTON_EVENTS, PING_REQUEST}
      /\ session.session_key # None)
     => out'.sig = mac_with_dir_and_counter(
                     session.session_key,
                     Msg(<<out'.hdr, out'.opcode>>, out'.payload),
                     1, session.tx_counter)]_vars

\* C5: tx_counter grows by exactly 1 with each signed packet the client
\* emits, and changes at no other time except the reset to 0 on disconnect.
C5_TxCounterPerSignedPacket ==
  [][IF out' # None /\ out'.sig # None
     THEN session'.tx_counter = session.tx_counter + 1
     ELSE \/ session'.tx_counter = session.tx_counter
          \/ bleak_client' # "connected" /\ session'.tx_counter = 0
          \/ /\ op'.result = "BleakError"    \* signed, refused by the transport
             /\ session'.tx_counter = session.tx_counter + 1]_vars

\* C6: outside a running handshake the session holds a key only if a
\* handshake completed on this connection (so not after pair() failed at
\* step 2 or timed out), and init_button_events goes on to send only then.
C6_KeyOnlyAfterHandshake ==
  /\ (/\ session.session_key # None
      /\ ~(op.name \in {"pair", "quick_verify"} /\ ~Idle))
     => handshake_done
  /\ (op.name = "init_button_events" /\ op.pc = "send") => handshake_done

\* C7: on_button_event is never invoked unless a handshake has completed
\* on the current connection.
C7_NoEventBeforeHandshake ==
  \A i \in DOMAIN cb : cb[i].name = "on_button_event" => handshake_done

\* C8: DISCONNECTED_LINK received once the session is established, as the
\* reply init_button_events reads or as an unsolicited notification, erases
\* the session key and takes connection_state out of READY.
C8_DisconnectedLinkEndsSession ==
  [][(/\ connection_state = "READY"
      /\ session.session_key # None
      /\ \/ /\ tasks # <<>>
            /\ tasks' = Tail(tasks)
            /\ Head(tasks).opcode = DISCONNECTED_LINK
         \/ /\ op.name = "init_button_events" /\ op.pc = "wait"
            /\ op'.pc = "idle"
            /\ response_event
            /\ last_response.opcode = DISCONNECTED_LINK)
     => /\ session'.session_key = None
        /\ connection_state' # "READY"]_vars

\* C9: once the session is established, a notification whose signature
\* does not verify delivers no event, and the client ends DISCONNECTED with
\* the transport disconnected.
C9_BadSignatureRejected ==
  [][(/\ connection_state = "READY"
      /\ decoder_key # None
      /\ tasks # <<>>
      /\ tasks' = Tail(tasks)
      /\ Head(tasks).sig # None
      /\ ~SignatureMatches(decoder_key, Head(tasks)))
     => /\ \A i \in DOMAIN cb' : cb'[i].name # "on_button_event"
        /\ connection_state' = "DISCONNECTED"
        /\ bleak_client' # "connected"]_vars

\* C10: a state machine becomes FAILED in a step exactly when that step
\* invokes its on_error, and then invokes it once.
C10_FailedIffOneOnError ==
  [][\A k \in DOMAIN machines :
       LET errors == {i \in DOMAIN cb' :
                        cb'[i].name = "on_error" /\ cb'[i].hs = k}
           fails == machines[k].state # "FAILED" /\ machines'[k].state = "FAILED"
       IN  Cardinality(errors) = (IF fails THEN 1 ELSE 0)]_vars

\* C11: when the button answers request 2 with FULL_VERIFY_FAIL_RESPONSE_2,
\* for each of the reasons 1..4 the waiting pair() is handed an error that
\* names the reason (so it raises PairingError, not TimeoutError), and no
\* credentials are stored.
C11_FailResponse2RaisesPairingError ==
  [][\A k \in DOMAIN machines :
       (/\ tasks # <<>>
        /\ tasks' = Tail(tasks)
        /\ state_machine = k
        /\ machines[k].state = "FULL_VERIFY_REQUEST_2_SENT"
        /\ Head(tasks).opcode = FULL_VERIFY_FAIL_RESPONSE_2
        /\ ReasonByte(Head(tasks).payload) \in 1..4
        /\ InCall(op, k) /\ op.pc = "wait" /\ ~op.complete)
       => /\ op'.complete
          /\ op'.error = ErrorMsg("FullVerify failed at step 2",
                                  FullVerifyFailReasonName(
                                    ReasonByte(Head(tasks).payload)))
          /\ op'.result_credentials = None
          /\ credentials' = credentials]_vars

\* C12: when pair() or quick_verify() ends in PairingError or TimeoutError,
\* connection_state has left PAIRING / QUICK_VERIFYING and the transport is
\* no longer connected.
C12_FailedHandshakeTearsDown ==
  [][(/\ op.name \in {"pair", "quick_verify"}
      /\ op.pc = "wait"
      /\ op'.pc = "idle"
      /\ op'.result \in {"PairingError", "TimeoutError"})
     => /\ connection_state' \notin {"PAIRING", "QUICK_VERIFYING"}
        /\ bleak_client' # "connected"]_vars

\* C15: a step that ends the connection (disconnect() or the transport's
\* disconnect callback) leaves no session key in the client's encoder or
\* decoder.
C15_DisconnectErasesCodecKeys ==
  [][(bleak_client = "connected" /\ bleak_client' # "connected")
     => (encoder_key' = None /\ decoder_key' = None)]_vars

\* C19: connection_state becomes READY only from PAIRING or QUICK_VERIFYING.
C19_ReadyOnlyFromHandshake ==
  [][(connection_state' = "READY" /\ connection_state # "READY")
     => connection_state \in {"PAIRING", "QUICK_VERIFYING"}]_vars

\* C17: init_button_events, ping or listen started while the session holds
\* no key raises NotPairedError and hands nothing to the transport.
C17_SessionScopedNeedKey ==
  [][(/\ Idle
      /\ op' # op
      /\ op'.name \in {"init_button_events", "ping", "listen"}
      /\ session.session_key = None)
     => (op'.result = "NotPairedError" /\ out' = None)]_vars

\* C18: ping() returns True only if a PING_RESPONSE notification arrived
\* after its request was sent.
C18_PingTrueNeedsPingResponse ==
  [][(/\ op.name = "ping"
      /\ op.pc = "wait"
      /\ op'.pc = "idle"
      /\ op'.result = "True")
     => ping_response_seen]_vars

\* C14: in the step in which disconnect() returns, whatever the state before
\* it and whether or not the transport's disconnect raised, the transport
\* handle is None, SessionState is as constructed (conn_id 0, no session key,
\* both counters 0, not paired), connection_state is DISCONNECTED and
\* _running is False; the call returns normally.
C14_DisconnectReleasesAll ==
  [][(op'.name = "disconnect" /\ op'.pc = "idle" /\ op' # op)
     => /\ bleak_client' = "None"
        /\ session' = [conn_id |-> 0, session_key |-> None, tx_counter |-> 0,
                       rx_counter |-> 0, is_paired |-> FALSE]
        /\ connection_state' = "DISCONNECTED"
        /\ ~running'
        /\ op'.result = "None"]_vars

\* C14 happens: disconnect() has returned after the transport's disconnect
\* raised, on a client that had completed a handshake
C14_Witness ==
  /\ op.name = "disconnect" /\ Idle
  /\ op.error = ErrorMsg("Error during disconnect", "BleakError")
  /\ encoder_key # None
  /\ bleak_client = "None"
  /\ session.session_key = None
  /\ ~running

\* C13: when the task that handles a NO_PAIRING_EXISTS reply runs while
\* quick_verify() waits, the state machine becomes FAILED with error reason
\* INVALID_PAIRING_ID, the machine and the client are given no session key,
\* and the waiting call is handed an error; when quick_verify() then wakes it
\* raises PairingError with that error, which the supervisor answers with
\* ConfigEntryAuthFailed (re-pairing) and not with a scheduled reconnect.
C13_NoPairingExistsNeedsRepair ==
  [][/\ \A k \in DOMAIN machines :
          (/\ tasks # <<>>
           /\ tasks' = Tail(tasks)
           /\ state_machine = k
           /\ machines[k].state = "QUICK_VERIFY_REQUEST_SENT"
           /\ Head(tasks).opcode = NO_PAIRING_EXISTS
           /\ InCall(op, k) /\ op.pc = "wait" /\ ~op.complete)
          => /\ machines'[k].state = "FAILED"
             /\ machines'[k].ctx.error_reason = Some(INVALID_PAIRING_ID)
             /\ machines'[k].ctx.session_key = None
             /\ machines'[k].encoder = None /\ machines'[k].decoder = None
             /\ \A i \in DOMAIN cb' : cb'[i].name # "on_session_key"
             /\ session'.session_key = session.session_key
             /\ encoder_key' = encoder_key /\ decoder_key' = decoder_key
             /\ op'.complete
             /\ op'.error # None
             /\ async_connect_except("PairingError", op'.error)
                  = "ConfigEntryAuthFailed"
     /\ (/\ op.name = "quick_verify" /\ op.pc = "wait"
         /\ op.complete /\ op.error # None
         /\ op'.pc = "idle")
        => /\ op'.result = "PairingError"
           /\ op'.error = op.error
           /\ session'.session_key = session.session_key]_vars

\* C13 happens: quick_verify() has raised PairingError for NO_PAIRING_EXISTS,
\* no holder has a session key, and the supervisor asks for re-pairing
C13_Witness ==
  /\ Idle /\ op.name = "quick_verify" /\ op.result = "PairingError"
  /\ op.error = ErrorMsg("QuickVerify failed",
                         "No pairing exists on button (needs re-pairing)")
  /\ machines[op.hs].state = "FAILED"
  /\ machines[op.hs].ctx.error_reason = Some(INVALID_PAIRING_ID)
  /\ session.session_key = None /\ encoder_key = None /\ decoder_key = None
  /\ async_connect_except(op.result, op.error) = "ConfigEntryAuthFailed"

\* C20: on_button_event is invoked only by the task of the oldest
\* notification not yet processed, and that task, when it decodes a button
\* event packet, invokes it exactly once for each 7-byte record of the
\* payload, record i of the payload being the i-th call; so the records of
\* an earlier notification are all reported before any of a later one.
C20_EventsOncePerRecordInOrder ==
  [][LET data == Head(tasks)
         packet == decode(decoder_key, data, FALSE)
         n == IF packet.payload.len < 4 THEN 0
              ELSE (packet.payload.len - 4) \div 7
         info(i) == PByte(packet.payload, 4 + 7 * (i - 1) + 6)
         InOrder ==
           /\ Len(cb') = n
           /\ \A i \in 1..n :
                /\ cb'[i].name = "on_button_event"
                /\ cb'[i].event.event_type = event_type(info(i))
                /\ cb'[i].event.was_queued = ((info(i) \div 16) % 2 = 1)
     IN  /\ (\E i \in DOMAIN cb' : cb'[i].name = "on_button_event")
            => (tasks # <<>> /\ tasks' = Tail(tasks) /\ InOrder)
         /\ (/\ tasks # <<>>
             /\ tasks' = Tail(tasks)
             /\ (state_machine = 0 \/ is_complete(machines[state_machine]))
             /\ ~Raised(packet)
             /\ packet.opcode \in {BUTTON_EVENT_SINGLE, BUTTON_EVENT_NOTIFICATION})
            => InOrder]_vars

\* C20 happens: the two records of one notification were reported, DOWN
\* first and the queued double click second, while a later button event
\* notification waits for its task
C20_Witness ==
  /\ Len(cb) = 2
  /\ cb[1].name = "on_button_event" /\ cb[1].event.event_type = "DOWN"
  /\ cb[2].name = "on_button_event" /\ cb[2].event.event_type = "DOUBLE_CLICK"
  /\ cb[2].event.was_queued
  /\ tasks # <<>>
  /\ Head(tasks).opcode = BUTTON_EVENT_NOTIFICATION

\* C16: whenever on_button_event has been invoked for a notification on a
\* session that holds a key, the client later hands the transport a signed
\* packet that is none of its requests (the acknowledgement of the events).
C16_EventEventuallyAcked ==
  (/\ session.session_key # None
   /\ \E i \in DOMAIN cb : cb[i].name = "on_button_event")
    ~> (/\ out # None
        /\ out.sig # None
        /\ out.opcode \notin {FULL_VERIFY_REQUEST_1, FULL_VERIFY_REQUEST_2,
                              QUICK_VERIFY_REQUEST, INIT_BUTTON_EVENTS,
                              PING_REQUEST})

\* C21: decode_button_event returns no event for a payload shorter than 4
\* bytes and otherwise floor((len - 4) / 7) events; each carries the press
\* counter of the first 4 bytes, little-endian; for the k-th event, with
\* info the seventh byte of the k-th record, was_queued is bit 4 of info
\* and the type is HOLD if bits 3 and 2 are set, else DOUBLE_CLICK or
\* SINGLE_CLICK if bits 3 and 1 are set (by bit 0), else UP if bit 3 is set,
\* else by the table 0..5 -> UP, DOWN, CLICK, SINGLE_CLICK, DOUBLE_CLICK,
\* HOLD, and UP for 6 and 7.
C21_DecodeButtonEvent ==
  (arg # None /\ arg.fn = "decode_button_event" /\ ret # None) =>
    LET bs == arg.payload.bytes
        len == Len(bs)
        bit(x, i) == (x \div (2 ^ i)) % 2 = 1
        expected(info) ==
          IF bit(info, 3) /\ bit(info, 2) THEN "HOLD"
          ELSE IF bit(info, 3) /\ bit(info, 1) /\ bit(info, 0) THEN "DOUBLE_CLICK"
          ELSE IF bit(info, 3) /\ bit(info, 1) THEN "SINGLE_CLICK"
          ELSE IF bit(info, 3) THEN "UP"
          ELSE <<"UP", "DOWN", "CLICK", "SINGLE_CLICK", "DOUBLE_CLICK",
                 "HOLD", "UP", "UP">>[(info % 8) + 1]
        events == ret.value
    IN  IF len < 4 THEN events = <<>>
        ELSE /\ Len(events) = (len - 4) \div 7
             /\ \A k \in 1..Len(events) :
                  LET info == bs[4 + 7 * k]
                  IN  /\ events[k].press_counter
                           = bs[1] + 256 * (bs[2] + 256 * (bs[3] + 256 * bs[4]))
                      /\ events[k].was_queued = bit(info, 4)
                      /\ events[k].event_type = expected(info)

\* C21 happens: a payload of 18 bytes whose first record has event_info 0x1B
\* was decoded into two events, the first a queued DOUBLE_CLICK
C21_Witness ==
  /\ arg # None /\ arg.fn = "decode_button_event" /\ ret # None
  /\ arg.payload.len = 18
  /\ arg.payload.bytes[11] = 27
  /\ Len(ret.value) = 2
  /\ ret.value[1].event_type = "DOUBLE_CLICK" /\ ret.value[1].was_queued
  /\ ret.value[1].press_counter = 67305985

\* C22: decode(encode(opcode, payload, conn_id, newly_assigned)) returns the
\* same opcode, payload, conn_id and flag, unsigned and also signed and
\* verified under the same key, for every payload length from 0.
C22_RoundTrip ==
  (arg # None /\ arg.fn = "decode(encode)" /\ ret # None) =>
    /\ ~Raised(ret.value)
    /\ ret.value.opcode = arg.opcode
    /\ ret.value.payload = arg.payload
    /\ ret.value.conn_id = arg.conn_id
    /\ ret.value.newly_assigned = arg.newly_assigned
    /\ ~ret.value.is_multi /\ ~ret.value.is_fragment

\* C23: the task that handles a FullVerifyResponse1 of at least 116 bytes
\* whose flags byte has bit 1 clear makes the machine FAILED, invokes
\* on_error, sends nothing and hands out no key; and once pair() has been
\* given that error, FullVerifyRequest2 is not sent and on_session_key is
\* not invoked.
C23_NotPublicModeFails ==
  [][/\ \A k \in DOMAIN machines :
          (/\ tasks # <<>>
           /\ tasks' = Tail(tasks)
           /\ state_machine = k
           /\ machines[k].state = "FULL_VERIFY_REQUEST_1_SENT"
           /\ Head(tasks).opcode = FULL_VERIFY_RESPONSE_1
           /\ Head(tasks).payload.len >= 116
           /\ (PByte(Head(tasks).payload, 115) \div 2) % 2 = 0)
          => /\ machines'[k].state = "FAILED"
             /\ \E i \in DOMAIN cb' : cb'[i].name = "on_error"
             /\ out' = None
             /\ \A i \in DOMAIN cb' : cb'[i].name # "on_session_key"
     /\ (/\ op.name = "pair"
         /\ op.error = ErrorMsg("Button is not in pairing mode", ""))
        => /\ (out' = None \/ out'.opcode # FULL_VERIFY_REQUEST_2)
           /\ \A i \in DOMAIN cb' : cb'[i].name # "on_session_key"]_vars

\* C24: when pair() has returned credentials, the state machine of that
\* call has been in exactly IDLE, FULL_VERIFY_REQUEST_1_SENT,
\* FULL_VERIFY_REQUEST_2_SENT, FULL_VERIFY_COMPLETE, in that order, and the
\* stored pairing_id and pairing_key and the session key last handed to
\* on_session_key are derived from one secret, that of this handshake.
C24_FullVerifyPathAndCredentials ==
  (Idle /\ op.name = "pair" /\ op.result = "credentials") =>
    LET m == machines[op.hs]
    IN  /\ m.path = <<"IDLE", "FULL_VERIFY_REQUEST_1_SENT",
                      "FULL_VERIFY_REQUEST_2_SENT", "FULL_VERIFY_COMPLETE">>
        /\ credentials.pairing_id = derive_pairing_data(m.ctx.session_key.secret).pairing_id
        /\ credentials.pairing_key = derive_pairing_data(m.ctx.session_key.secret).pairing_key
        /\ m.ctx.session_key.secret.nonce = m.ctx.nonce
        /\ encoder_key = m.ctx.session_key

\* C25: a call of init_button_events whose transport write raises leaves
\* tx_counter and rx_counter as they were before the call.
C25_FailedWriteKeepsCounters ==
  [][(InitButtonEventsStart(FALSE) /\ op'.result = "BleakError") =>
       /\ session'.tx_counter = session.tx_counter
       /\ session'.rx_counter = session.rx_counter]_vars

\* C26: when pair() or quick_verify(), called on a connected client (with
\* stored credentials for quick_verify), ends without success, it ends with
\* PairingError or TimeoutError and connection_state is then neither PAIRING
\* nor QUICK_VERIFYING.
C26_HandshakeExit ==
  [][(/\ op'.name \in {"pair", "quick_verify"}
      /\ op'.pc = "idle"
      /\ op' # op
      /\ op'.result \notin {"credentials", "True", "ConnectionError",
                            "NotPairedError"}) =>
       /\ op'.result \in {"PairingError", "TimeoutError"}
       /\ connection_state' \notin {"PAIRING", "QUICK_VERIFYING"}]_vars

C28_InitButtonEventsFalse ==
  [][(InitButtonEventsWake /\ op'.result = "False") =>
       last_response.opcode # BUTTON_EVENT_NOTIFICATION]_vars

\* C29: a ping whose response was delivered after its request was handed to
\* the transport does not time out, also when the response came before the
\* call started to wait on the latch.
C29_DeliveredResponseNotDiscarded ==
  [][PingTimeout => ~ping_response_seen]_vars

\* C30: once pair() or quick_verify() has ended with TimeoutError or
\* PairingError and no other operation has been started, no step writes a
\* packet to the transport, installs a session key in the session, the
\* encoder or the decoder, or changes the stored credentials.
C30_LateHandshakePacketsInert ==
  [][(/\ Idle
      /\ op.name \in {"pair", "quick_verify"}
      /\ op.result \in {"TimeoutError", "PairingError"}
      /\ op' = op) =>
       /\ out' = None
       /\ session'.session_key \in {session.session_key, None}
       /\ encoder_key' = encoder_key
       /\ decoder_key' = decoder_key
       /\ credentials' = credentials]_vars

\* C31: FullVerifyRequest2 is written for a handshake only when no handler
\* of that handshake has written it before: none is still awaiting that
\* write and the machine has never been in FULL_VERIFY_REQUEST_2_SENT.
C31_Request2AtMostOnce ==
  [][(out' # None /\ out'.opcode = FULL_VERIFY_REQUEST_2) =>
       /\ \A i \in DOMAIN suspended : suspended[i].hs # state_machine
       /\ \A j \in DOMAIN machines[state_machine].path :
            machines[state_machine].path[j] # "FULL_VERIFY_REQUEST_2_SENT"]_vars

\* C32: whenever a handshake installs a session key that differs from the
\* one the session holds, tx_counter is 0 after the step, also when the
\* handshake runs on a session that has already sent a signed packet.
C32_NewKeyStartsAtCounterZero ==
  [][(/\ \E i \in DOMAIN cb' : cb'[i].name = "on_session_key"
      /\ session'.session_key # session.session_key) =>
       session'.tx_counter = 0]_vars

\* C33: once connection_state is DISCONNECTED it stays DISCONNECTED until
\* connect() is called, whatever a pair() or quick_verify() that was in
\* progress at the disconnect does afterwards.
C33_DisconnectedUntilConnect ==
  [][(connection_state = "DISCONNECTED"
      /\ connection_state' # "DISCONNECTED") => ConnectStart]_vars

C35_DecodeAlwaysChecksMac ==
  (arg # None /\ arg.fn = "decode" /\ ret # None) =>
    IF SignatureMatches(arg.chaskey, arg.data)
    THEN ~Raised(ret.value)
    ELSE ret.value = [raised |-> "InvalidSignatureError"]

\* C36: while the coordinator is running, when a connection attempt ends
\* because the device was not found or because connect, quick_verify or
\* init_button_events failed (lost pairing apart), and when the listen loop
\* ends, a reconnect task is pending afterwards; and once async_stop has
\* run no reconnect task becomes pending.
C36_ReconnectAlwaysScheduled ==
  /\ [][(/\ \/ \E by \in {"start", "reconnect"} : AsyncConnectExcept(by)
            \/ AsyncStart(FALSE)
            \/ ReconnectWake(FALSE)
            \/ ListenEnd
         /\ coordinator'.running
         /\ coordinator'.last # "ConfigEntryAuthFailed") =>
          coordinator'.reconnect_task = "sleeping"]_vars
  /\ [][~coordinator'.running =>
          (coordinator'.reconnect_task = "sleeping"
             => coordinator.reconnect_task = "sleeping")]_vars

\* C37: mac() absorbs every block before the last one, then processes the
\* last block with k1 and no padding when the length of the message is a
\* positive multiple of 16, and with k2 after 0x01-then-zeros padding
\* otherwise; a message of 16 * n bytes (n >= 1) takes n permutations.
C37_MacLastBlock ==
  (arg.fn = "mac" /\ ret # None) =>
    LET m == arg.message
        n == Len(m)
        v == ret.value.v
        permutes == {i \in DOMAIN v : v[i].op = "permute"}
        final == CHOOSE i \in permutes : \A j \in permutes : j <= i
        positive == n > 0 /\ n % 16 = 0
        before == IF positive THEN n \div 16 - 1 ELSE n \div 16
        rest == n - 16 * before
        padded == [k \in 1..16 |-> IF k <= rest THEN m[16 * before + k]
                                   ELSE IF k = rest + 1 THEN 1 ELSE 0]
    IN  /\ v[1] = Load("k")
        /\ final = 2 * before + 4
        /\ \A b \in 0..(before - 1) :
             /\ v[2 + 2 * b] = Xor({0, 1, 2, 3}, "block",
                                   unpack4I(SubSeq(m, 16 * b + 1, 16 * b + 16)))
             /\ v[3 + 2 * b] = Permute
        /\ v[final - 2] =
             Xor({0, 1, 2, 3}, "block",
                 unpack4I(IF positive THEN SubSeq(m, n - 15, n) ELSE padded))
        /\ v[final - 1] =
             Xor({0, 1, 2, 3}, IF positive THEN "k1" ELSE "k2", <<>>)
        /\ positive => Cardinality(permutes) = n \div 16

\* C38: mac_with_dir_and_counter absorbs in its loop only the blocks strictly
\* before the last one, routes the final block through the subkey path (k1
\* unpadded iff the length is a positive multiple of 16, otherwise k2 with
\* 0x01 padding, the empty message included), XORs that same subkey into
\* v[0..1] after the final permutation and outputs exactly 5 bytes: v[0]
\* little-endian, then the low byte of v[1].
C38_MacWithDirAndCounterShape ==
  (arg.fn = "mac_with_dir_and_counter" /\ ret # None) =>
    LET m == arg.message
        n == Len(m)
        v == ret.value.v
        permutes == {i \in DOMAIN v : v[i].op = "permute"}
        final == CHOOSE i \in permutes : \A j \in permutes : j <= i
        positive == n > 0 /\ n % 16 = 0
        before == IF positive THEN n \div 16 - 1 ELSE n \div 16
        rest == n - 16 * before
        padded == [k \in 1..16 |-> IF k <= rest THEN m[16 * before + k]
                                   ELSE IF k = rest + 1 THEN 1 ELSE 0]
        subkey == IF positive THEN "k1" ELSE "k2"
    IN  /\ final = 2 * before + 8
        /\ Len(v) = final + 1
        /\ Cardinality(permutes) = before + 2
        /\ \A b \in 0..(before - 1) :
             /\ v[6 + 2 * b] = Xor({0, 1, 2, 3}, "block",
                                   unpack4I(SubSeq(m, 16 * b + 1, 16 * b + 16)))
             /\ v[7 + 2 * b] = Permute
        /\ v[final - 2] =
             Xor({0, 1, 2, 3}, "block",
                 unpack4I(IF positive THEN SubSeq(m, n - 15, n) ELSE padded))
        /\ v[final - 1] = Xor({0, 1, 2, 3}, subkey, <<>>)
        /\ v[final + 1] = Xor({0, 1}, subkey, <<>>)
        /\ ret.value.out = <<[word |-> 0, byte |-> 0], [word |-> 0, byte |-> 1],
                             [word |-> 0, byte |-> 2], [word |-> 0, byte |-> 3],
                             [word |-> 1, byte |-> 0]>>

\* a 32-byte message signed with direction and counter: one block absorbed
\* in the loop, the second unpadded with k1
C38_Witness ==
  /\ arg.fn = "mac_with_dir_and_counter"
  /\ Len(arg.message) = 32
  /\ arg.counter = 1
  /\ ret # None
  /\ Len(ret.value.v) = 11
  /\ ret.value.v[9] = Xor({0, 1, 2, 3}, "k1", <<>>)
  /\ Len(ret.value.out) = 5

\* C39: verify_button_identity returns the first b of 0, 1, 2, 3 for which
\* the signature with byte 32 replaced by (orig & 0xFC) | b, every other byte
\* unchanged, verifies over address || address_type || ecdh_pubkey, and
\* raises InvalidSignatureError exactly when none of the four verifies.
C39_FirstVerifyingSigBits ==
  (arg.fn = "verify_button_identity" /\ ret # None) =>
    LET orig == arg.signature[33]
        message == arg.address \o <<arg.address_type>> \o arg.ecdh_pubkey
        candidate(b) == [i \in 1..64 |->
                           IF i = 33 THEN orig - (orig % 4) + b
                           ELSE arg.signature[i]]
        verifying == {b \in 0..3 :
                        Ed25519Verify(arg.oracle, candidate(b), message)}
    IN  IF verifying = {}
        THEN ret.value = [raises |-> "InvalidSignatureError"]
        ELSE ret.value = [returns |-> CHOOSE b \in verifying :
                                        \A c \in verifying : b <= c]

\* a signature whose byte 32 has both low bits set and which verifies with
\* low bits 0 and with low bits 3: 0 is returned
C39_Witness ==
  /\ arg.fn = "verify_button_identity"
  /\ arg.signature[33] = 255
  /\ arg.oracle.byte32 = {252, 255}
  /\ arg.signature = [IssuedSignature EXCEPT ![33] = 255]
  /\ arg.oracle.message = arg.address \o <<arg.address_type>> \o arg.ecdh_pubkey
  /\ ret # None
  /\ ret.value = [returns |-> 0]

\* C40: credential store round trip.  After save(c), load of c's address in
\* any letter case returns credentials equal to c in pairing_id, pairing_key,
\* button_uuid, name, serial_number, firmware_version and the event-tracking
\* fields; a save leaves exactly one entry for the address, the one saved;
\* after delete(address), load of the address returns none.
C40_StoreRoundTrip ==
  /\ [][(/\ arg.fn = "save"
         /\ arg'.fn = "load"
         /\ upper(arg'.address) = upper(arg.credentials.address)) =>
          /\ ret'.value # None
          /\ \A f \in {"pairing_id", "pairing_key", "button_uuid", "name",
                       "serial_number", "firmware_version", "last_boot_id",
                       "last_event_count"} :
               ret'.value[f] = arg.credentials[f]]_vars
  /\ [][arg'.fn = "save" =>
          /\ Cardinality({r \in db' : upper(r.address)
                                        = upper(arg'.credentials.address)}) = 1
          /\ Cardinality(db') <= Cardinality(db) + 1
          /\ (\E r \in db : upper(r.address) = upper(arg'.credentials.address))
               => Cardinality(db') = Cardinality(db)]_vars
  /\ [][(/\ arg.fn = "delete"
         /\ arg'.fn = "load"
         /\ upper(arg'.address) = upper(arg.address)) =>
          ret'.value = None]_vars

====
